---- MODULE Spec2Model ----
(***************************************************************************)
(* Request-dispatch core of the Aether LLM proxy.                          *)
(*                                                                         *)
(* Part I   AsyncTaskOrchestrator.submit_with_failover                     *)
(*          (src/src/services/task/orchestrator.py): the candidate loop    *)
(*          of the submit phase, its RequestCandidate records, the         *)
(*          session/commit boundary and its outcomes.                      *)
(* Part II  FailoverEngine.execute, Part III RequestExecutor.execute,      *)
(* Part IV  AdaptiveRPMManager, Part V ConcurrencyChecker,                 *)
(* Part VI  is_format_compatible, Part VII the candidate sorter.           *)
(*                                                                         *)
(* Conventions.  Python None is the string "None" for string-typed values  *)
(* and the empty set for Optional[int] values (Some(n) is {n}).  Python    *)
(* lists are sequences, so candidate_index i of the source is position     *)
(* i + 1 here.  The database is taken to work: flush and commit do not     *)
(* raise.                                                                  *)
(***************************************************************************)
EXTENDS Integers, Sequences, FiniteSets, TLC

None == "None"
NoInt == {}
Some(n) == {n}

\* Longest candidate list returned by fetch_candidates.
MaxCandidates == 2

SeqsUpTo(S, n) == UNION {[1..k -> S] : k \in 0..n}

Last(s) == s[Len(s)]

Min(a, b) == IF a < b THEN a ELSE b

(***************************************************************************)
(* Part I.  AsyncTaskOrchestrator                                          *)
(***************************************************************************)

\* AsyncTaskOrchestrator (Part I)
VARIABLES
    pc,                      \* position of submit_with_failover
    n_candidates,            \* len(candidates) after the max_candidates cut
    candidates,              \* the candidates the loop has read so far
    request_id,              \* argument: None or an id
    allow_format_conversion, \* argument
    supported_auth_types,    \* argument: [is_none, types]
    max_candidates,          \* argument: None or a number
    billing_require_rule,    \* config.billing_require_rule
    candidate_records,       \* self._candidate_records (session state)
    committed,               \* what db.commit() last made durable
    candidate_keys,          \* the audit list handed to the caller
    eligible_count,
    last_status_code,
    idx,                     \* loop position (candidate_index + 1)
    rule_lookup,             \* has_billing_rule of the current candidate
    submitted,               \* history: positions submit_func was awaited for
    inflight,                \* history: positions whose submit_func has not finished
    classified,              \* history: _should_stop_on_http_error on the last attempt
    last_response,           \* history: what submit_func returned to the last attempt
    outcome                  \* what the call returned or raised

orchVars == <<pc, n_candidates, candidates, request_id, allow_format_conversion,
              supported_auth_types, max_candidates, billing_require_rule, candidate_records,
              committed, candidate_keys, eligible_count, last_status_code,
              idx, rule_lookup, submitted, inflight, classified, last_response,
              outcome>>

\* FailoverEngine.execute (Part II)
VARIABLES
    e_pc,          \* position of execute, then of the caller reading the stream
    e_candidates,  \* the candidate list
    e_policy,      \* RetryPolicy: [mode, max_retries]
    e_records,     \* candidate_record_map with the status of each record
    e_committed,   \* the statuses as of the last commit
    e_idx,         \* candidate position (candidate_index + 1)
    e_retry,       \* retry_index
    e_attempts,    \* history: slots attempt_func was awaited for
    e_verdict,     \* history: the classifier's answer to the last attempt, if it failed
    e_unused,      \* history: the records marked unused
    e_probe_failed, \* history: the slot of the request's first stream-probe failure
    e_upstream,    \* history: the chunks the accepted upstream stream holds
    e_iter,        \* the iterator handed back: [prefetched, rest, raises]
    e_delivered,   \* the chunks the caller has read from it
    e_result       \* ExecutionResult

engVars == <<e_pc, e_candidates, e_policy, e_records, e_committed, e_idx,
             e_retry, e_attempts, e_verdict, e_unused, e_probe_failed, e_upstream,
             e_iter, e_delivered, e_result>>

\* RequestExecutor.execute and the RPM guard (Part III)
VARIABLES
    x_rpm,       \* the key's RPM counter of the current one-minute window
    x_key,       \* the ProviderAPIKey row of the upstream key
    x_now,       \* datetime.now(), in minutes
    x_events,    \* calls others made on the key so far
    x_acquired,  \* history: acquisitions the guard granted in the current window
    x_pc,        \* per request: position of its caller and of execute
    x_n,         \* per request: number of candidates
    x_cached,    \* per request: candidate.is_cached of the current attempt
    x_pos,       \* per request: current candidate position
    x_record,    \* per request: the RequestCandidate of each candidate
    x_context,   \* per request: ExecutionContext of the current attempt
    x_count,     \* per request: the count read inside the guard, or None
    x_cause,     \* per request: cause of the ExecutionError raised
    x_calls      \* per request, history: positions request_func was awaited for (a set)

execVars == <<x_rpm, x_key, x_now, x_events, x_acquired, x_pc, x_n, x_cached, x_pos, x_record,
             x_context, x_count, x_cause, x_calls>>

\* AdaptiveRPMManager (Part IV)
VARIABLES
    a_key,    \* the ProviderAPIKey row the manager reads and writes
    a_now,    \* datetime.now(), in minutes
    a_last,   \* history: the last call made on the key, with its arguments
    a_steps   \* calls and waits so far

adaptVars == <<a_key, a_now, a_last, a_steps>>

\* AdaptiveRPMManager._trim_history taken alone (Part IV)
VARIABLES
    t_history,  \* the history it is given
    t_trimmed   \* the history it returns: {} before the call, {history} after

trimVars == <<t_history, t_trimmed>>

\* ConcurrencyChecker (Part V)
VARIABLES
    k_manager,  \* whether the checker was constructed with a concurrency manager
    k_count,    \* the manager's RPM counter of the key in the current minute
    k_limit,    \* what get_effective_rpm_limit returns for the key
    k_last,     \* history: the last check_available call, arguments and result
    k_pending   \* the check_available call that awaits the counter, if any

checkVars == <<k_manager, k_count, k_limit, k_last, k_pending>>

\* is_format_compatible (Part VI)
VARIABLES
    g_args,    \* the arguments of the call, with the answer of the registry
    g_result   \* what the call returned: {} before the call, {result} after

gateVars == <<g_args, g_result>>

\* Candidate sorter (Part VII)
VARIABLES
    s_args,    \* the candidate list, the scheduler's modes, the affinity found
    s_result   \* what the call returned: {} before the call, {result} after

sortVars == <<s_args, s_result>>

\* Access restrictions and merge_allowed_models (Part VIII)
VARIABLES
    r_args,       \* the ApiKey and the User whose restrictions are merged
    r_result,     \* None, or the code path taken and what it returned
    m_args,       \* the two allowed_models values to merge
    m_result      \* None, or what merge_allowed_models returned

restrictVars == <<r_args, r_result>>

mergeVars == <<m_args, m_result>>

\* Keys that count for availability (Part IX)
VARIABLES
    v_args,    \* the key rows, the requested formats, the endpoint formats
    v_result   \* what the call returned: {} before the call, {result} after

availVars == <<v_args, v_result>>

lastVars == <<restrictVars, mergeVars, availVars>>

laterVars == <<checkVars, gateVars, sortVars, lastVars>>

vars == <<orchVars, engVars, execVars, adaptVars, trimVars, laterVars>>

\* What each part leaves alone.
notOrch == <<engVars, execVars, adaptVars, trimVars, laterVars>>
notEng == <<orchVars, execVars, adaptVars, trimVars, laterVars>>
notExec == <<orchVars, engVars, adaptVars, trimVars, laterVars>>
notAdapt == <<orchVars, engVars, execVars, trimVars, laterVars>>
notTrim == <<orchVars, engVars, execVars, adaptVars, laterVars>>
earlierVars == <<orchVars, engVars, execVars, adaptVars, trimVars>>
notCheck == <<earlierVars, gateVars, sortVars, lastVars>>
notGate == <<earlierVars, checkVars, sortVars, lastVars>>
notSort == <<earlierVars, checkVars, gateVars, lastVars>>
notRestrict == <<earlierVars, checkVars, gateVars, sortVars, mergeVars, availVars>>
notMerge == <<earlierVars, checkVars, gateVars, sortVars, restrictVars, availVars>>
notAvail == <<earlierVars, checkVars, gateVars, sortVars, restrictVars, mergeVars>>

AuthTypes == {"api_key", "oauth"}

\* ProviderCandidate as far as the loop reads it.
ProviderCandidate ==
    {c \in [is_skipped : BOOLEAN, skip_reason : {None, "circuit_open"},
            needs_conversion : BOOLEAN, auth_type : AuthTypes] :
        ~c.is_skipped => c.skip_reason = None}

SupportedAuthTypes ==
    {[is_none |-> TRUE, types |-> {}],
     [is_none |-> FALSE, types |-> {"api_key"}]}

\* max_candidates: None, 0 or a positive cut.
MaxCandidatesArg == {NoInt, Some(0), Some(1)}

\* What submit_func can hand back: the status line, the classifier's view of
\* the error text, whether the body parses as JSON (and to a dict), and what
\* extract_external_task_id finds in it.
HttpResponse ==
    {r \in [status_code : {200, 400, 401, 403, 429, 500},
            is_client_error : BOOLEAN,
            json : {"invalid", "not_dict", "dict"},
            task_id : {"", "task_1"}] :
        /\ r.status_code >= 400 => (r.json = "invalid" /\ r.task_id = "")
        /\ r.status_code < 400 => ~r.is_client_error
        /\ r.json = "invalid" => r.task_id = ""}

ExceptionTypes == {"ConnectError"}

NoOutcome ==
    [kind |-> "none", reason |-> None, last_status_code |-> NoInt,
     external_task_id |-> None, candidate |-> 0]

NoVerdict == [candidate |-> 0, status_code |-> NoInt, stop |-> FALSE]

\* No response yet: submit_func is awaited, raised, or was never called.
NoResponse == [status_code |-> 0, is_client_error |-> FALSE, json |-> "invalid",
               task_id |-> ""]

NewRecord ==
    [status |-> "available", skip_reason |-> None, status_code |-> NoInt,
     error_type |-> None]

\* _create_candidate_records: one record per candidate, none without request_id.
_create_candidate_records(n, rid) ==
    IF rid = None THEN <<>> ELSE [i \in 1..n |-> NewRecord]

\* _update_candidate_record: no record, no update; None arguments keep the field.
_update_candidate_record(recs, i, status, skip_reason, status_code, error_type) ==
    IF i \notin DOMAIN recs THEN recs
    ELSE [recs EXCEPT ![i] =
            [status |-> status,
             skip_reason |-> IF skip_reason # None THEN skip_reason ELSE @.skip_reason,
             status_code |-> IF status_code # NoInt THEN status_code ELSE @.status_code,
             error_type |-> IF error_type # None THEN error_type ELSE @.error_type]]

\* A commit that is never issued: what was durable stays durable.
_commit_nothing(recs, durable) == durable

\* _commit_candidate_records: commit the session unless there are no records.
_commit_candidate_records(recs, durable) ==
    IF recs = <<>> THEN durable ELSE recs

\* _should_stop_on_http_error without the statuses it sets apart
_should_stop_on_http_error_any4xx(status_code, is_client_error) ==
    IF 400 <= status_code /\ status_code < 500 THEN is_client_error
    ELSE FALSE

\* _should_stop_on_http_error
_should_stop_on_http_error(status_code, is_client_error) ==
    IF status_code \in {401, 403, 429} THEN FALSE
    ELSE IF 400 <= status_code /\ status_code < 500 THEN is_client_error
    ELSE FALSE

\* candidate_info as appended at the top of each iteration.
CandidateInfo(i, cand) ==
    [index |-> i - 1, auth_type |-> cand.auth_type, skipped |-> FALSE,
     skip_reason |-> None, has_billing_rule |-> None,
     attempt_status |-> None, status_code |-> NoInt, selected |-> FALSE]

\* The pre-flight filters reduced to the scheduler's mark.
SkipReason_markOnly(cand, has_rule) ==
    IF cand.is_skipped
        THEN (IF cand.skip_reason # None THEN cand.skip_reason ELSE "skipped")
    ELSE None

\* The pre-flight filters of one iteration, in the order of the source: the
\* reason the candidate is skipped for, or None when it is eligible.
SkipReason(cand, has_rule) ==
    IF cand.is_skipped
        THEN (IF cand.skip_reason # None THEN cand.skip_reason ELSE "skipped")
    ELSE IF ~allow_format_conversion /\ cand.needs_conversion
        THEN "format_conversion_not_supported"
    ELSE IF ~supported_auth_types.is_none /\ cand.auth_type \notin supported_auth_types.types
        THEN "unsupported_auth_type:" \o cand.auth_type
    ELSE IF billing_require_rule /\ ~has_rule
        THEN "billing_rule_missing"
    ELSE None

\* BillingRuleService.find_rule is consulted only when the rule is required.
FindRuleResults == IF billing_require_rule THEN BOOLEAN ELSE {TRUE}

OrchInit ==
    /\ pc = "idle"
    /\ n_candidates = 0
    /\ candidates = <<>>
    /\ request_id = None
    /\ allow_format_conversion = FALSE
    /\ supported_auth_types = [is_none |-> TRUE, types |-> {}]
    /\ max_candidates = NoInt
    /\ billing_require_rule = FALSE
    /\ candidate_records = <<>>
    /\ committed = <<>>
    /\ candidate_keys = <<>>
    /\ eligible_count = 0
    /\ last_status_code = NoInt
    /\ idx = 1
    /\ rule_lookup = TRUE
    /\ submitted = <<>>
    /\ inflight = {}
    /\ classified = NoVerdict
    /\ last_response = NoResponse
    /\ outcome = NoOutcome

\* candidates[:max_candidates] when max_candidates is a positive number.
CutLength(n, cut) ==
    IF cut # NoInt /\ (\E m \in cut : m > 0)
        THEN Min(n, CHOOSE m \in cut : TRUE)
        ELSE n

\* The call is made with its arguments and awaits _ensure_initialized,
\* which awaits get_cache_aware_scheduler.
submit_with_failover ==
    /\ UNCHANGED notOrch
    /\ pc = "idle"
    /\ \E rid \in {None, "req_1"},
          afc \in BOOLEAN,
          sat \in SupportedAuthTypes,
          brr \in BOOLEAN,
          cut \in MaxCandidatesArg :
        /\ request_id' = rid
        /\ allow_format_conversion' = afc
        /\ supported_auth_types' = sat
        /\ billing_require_rule' = brr
        /\ max_candidates' = cut
    /\ pc' = "initializing"
    /\ UNCHANGED <<n_candidates, candidates, candidate_records, committed,
                   candidate_keys, eligible_count, last_status_code, idx,
                   rule_lookup, submitted, inflight, classified, last_response,
                   outcome>>

\* The scheduler is there: the resolver is built and fetch_candidates is
\* awaited.
EnsureInitialized ==
    /\ UNCHANGED notOrch
    /\ pc = "initializing"
    /\ pc' = "fetching"
    /\ UNCHANGED <<n_candidates, candidates, request_id, allow_format_conversion,
                   supported_auth_types, max_candidates, billing_require_rule,
                   candidate_records, committed, candidate_keys, eligible_count,
                   last_status_code, idx, rule_lookup, submitted, inflight,
                   classified, last_response, outcome>>

\* fetch_candidates returned: the call raises when there are no candidates,
\* else cuts them to max_candidates and creates the records.  An iteration
\* reads nothing of the list but candidates[idx], so each candidate is drawn
\* when the loop reaches it.
FetchCandidates ==
    /\ UNCHANGED notOrch
    /\ pc = "fetching"
    /\ \E fetched \in 0..MaxCandidates :
        IF fetched = 0
          THEN /\ pc' = "raised"
               /\ outcome' = [NoOutcome EXCEPT !.kind = "ProviderNotAvailableException"]
               /\ UNCHANGED <<n_candidates, candidate_records>>
          ELSE /\ pc' = "loop"
               /\ n_candidates' = CutLength(fetched, max_candidates)
               /\ candidate_records' =
                    _create_candidate_records(CutLength(fetched, max_candidates),
                                              request_id)
               /\ UNCHANGED outcome
    /\ UNCHANGED <<candidates, request_id, allow_format_conversion,
                   supported_auth_types, max_candidates, billing_require_rule,
                   committed, candidate_keys, eligible_count, last_status_code,
                   idx, rule_lookup, submitted, inflight, classified,
                   last_response>>

\* get_cache_aware_scheduler or fetch_candidates raises, or the task is
\* cancelled while one of them is awaited: nothing catches it before the
\* loop, and it leaves the call with no record created.
EntryRaised ==
    /\ UNCHANGED notOrch
    /\ pc \in {"initializing", "fetching"}
    /\ \E exc \in ExceptionTypes \cup {"CancelledError"} :
        outcome' = [NoOutcome EXCEPT !.kind = exc]
    /\ pc' = "raised"
    /\ UNCHANGED <<n_candidates, candidates, request_id, allow_format_conversion,
                   supported_auth_types, max_candidates, billing_require_rule,
                   candidate_records, committed, candidate_keys, eligible_count,
                   last_status_code, idx, rule_lookup, submitted, inflight,
                   classified, last_response>>

\* One iteration that ends in `continue` before the attempt: the candidate is
\* skipped by the scheduler or by a pre-flight filter.
SkipCandidate ==
    /\ UNCHANGED notOrch
    /\ pc = "loop"
    /\ idx <= n_candidates
    /\ \E cand \in ProviderCandidate, has_rule \in FindRuleResults :
        LET reason == SkipReason(cand, has_rule)
            info == CandidateInfo(idx, cand)
        IN  /\ reason # None
            /\ candidates' = Append(candidates, cand)
            /\ candidate_keys' = Append(candidate_keys,
                    [info EXCEPT !.skipped = TRUE, !.skip_reason = reason,
                                 !.has_billing_rule =
                                     IF reason = "billing_rule_missing" THEN "False" ELSE None])
            /\ candidate_records' =
                    _update_candidate_record(candidate_records, idx, "skipped",
                                             reason, NoInt, None)
    /\ idx' = idx + 1
    /\ UNCHANGED <<pc, n_candidates, request_id, allow_format_conversion,
                   supported_auth_types, max_candidates, billing_require_rule, committed,
                   eligible_count, last_status_code, rule_lookup, submitted,
                   inflight, classified, outcome,
                   last_response>>

\* One iteration that passes the filters: the record goes to pending and
\* submit_func is awaited.
AttemptCandidate ==
    /\ UNCHANGED notOrch
    /\ pc = "loop"
    /\ idx <= n_candidates
    /\ \E cand \in ProviderCandidate, has_rule \in FindRuleResults :
        LET info == CandidateInfo(idx, cand)
        IN  /\ SkipReason(cand, has_rule) = None
            /\ candidates' = Append(candidates, cand)
            /\ candidate_keys' = Append(candidate_keys,
                    [info EXCEPT !.has_billing_rule = "True"])
            /\ rule_lookup' = has_rule
    /\ eligible_count' = eligible_count + 1
    /\ candidate_records' =
            _update_candidate_record(candidate_records, idx, "pending", None, NoInt, None)
    /\ submitted' = Append(submitted, idx)
    /\ inflight' = inflight \cup {idx}
    /\ classified' = NoVerdict
    /\ last_response' = NoResponse
    /\ pc' = "submitting"
    /\ UNCHANGED <<n_candidates, request_id, allow_format_conversion,
                   supported_auth_types, max_candidates, billing_require_rule, committed,
                   last_status_code, idx, outcome>>

\* candidate_info.update(...) on the entry of the current iteration.
UpdateInfo(keys, attempt_status, status_code, selected) ==
    [keys EXCEPT ![Len(keys)] =
        [@ EXCEPT !.attempt_status = attempt_status,
                  !.status_code = status_code,
                  !.selected = selected]]

orchArgs == <<n_candidates, candidates, request_id, allow_format_conversion,
              supported_auth_types, max_candidates, billing_require_rule>>

\* submit_func raised an Exception and the same candidate is tried again.
SubmitException_retries ==
    /\ UNCHANGED notOrch
    /\ pc = "submitting"
    /\ \E exc \in ExceptionTypes :
        /\ candidate_keys' = UpdateInfo(candidate_keys, "exception", NoInt, FALSE)
        /\ candidate_records' =
                _update_candidate_record(candidate_records, idx, "failed", None, NoInt, exc)
    /\ inflight' = inflight \ {idx}
    /\ pc' = "loop"
    /\ UNCHANGED <<orchArgs, committed, eligible_count, last_status_code, idx,
                   rule_lookup, submitted, classified, last_response, outcome>>

\* submit_func raised an Exception: the record fails, the loop continues.
SubmitException ==
    /\ UNCHANGED notOrch
    /\ pc = "submitting"
    /\ \E exc \in ExceptionTypes :
        /\ candidate_keys' = UpdateInfo(candidate_keys, "exception", NoInt, FALSE)
        /\ candidate_records' =
                _update_candidate_record(candidate_records, idx, "failed", None, NoInt, exc)
    /\ inflight' = inflight \ {idx}
    /\ idx' = idx + 1
    /\ pc' = "loop"
    /\ UNCHANGED <<orchArgs, committed, eligible_count, last_status_code,
                   rule_lookup, submitted, classified, outcome,
                   last_response>>

\* The task is cancelled while submit_func is awaited.  CancelledError is a
\* BaseException: `except Exception` does not catch it and it leaves the call.
SubmitCancelled ==
    /\ UNCHANGED notOrch
    /\ pc = "submitting"
    /\ pc' = "raised"
    /\ outcome' = [NoOutcome EXCEPT !.kind = "CancelledError", !.candidate = idx]
    /\ inflight' = inflight \ {idx}
    /\ UNCHANGED <<orchArgs, candidate_records, committed, candidate_keys,
                   eligible_count, last_status_code, idx, rule_lookup, submitted,
                   classified,
                   last_response>>

\* The response is an upstream error (status >= 400): the record fails; a
\* client error stops the failover, anything else continues.
HttpError ==
    /\ UNCHANGED notOrch
    /\ pc = "submitting"
    /\ \E response \in HttpResponse :
        LET recs == _update_candidate_record(candidate_records, idx, "failed", None,
                                             Some(response.status_code), "http_error")
        IN  /\ response.status_code >= 400
            /\ last_status_code' = Some(response.status_code)
            /\ last_response' = response
            /\ candidate_keys' = UpdateInfo(candidate_keys, "http_error",
                                            Some(response.status_code), FALSE)
            /\ candidate_records' = recs
            /\ classified' =
                    [candidate |-> idx,
                     status_code |-> response.status_code,
                     stop |-> _should_stop_on_http_error(response.status_code,
                                                         response.is_client_error)]
            /\ IF _should_stop_on_http_error(response.status_code, response.is_client_error)
                  THEN /\ committed' = _commit_candidate_records(recs, committed)
                       /\ pc' = "raised"
                       /\ outcome' = [NoOutcome EXCEPT
                                        !.kind = "UpstreamClientRequestError",
                                        !.last_status_code = Some(response.status_code),
                                        !.candidate = idx]
                       /\ UNCHANGED idx
                  ELSE /\ idx' = idx + 1
                       /\ pc' = "loop"
                       /\ UNCHANGED <<committed, outcome>>
    /\ inflight' = inflight \ {idx}
    /\ UNCHANGED <<orchArgs, eligible_count, rule_lookup, submitted>>

\* A response below 400 whose body is not JSON: failed, continue.
InvalidJson ==
    /\ UNCHANGED notOrch
    /\ pc = "submitting"
    /\ \E response \in HttpResponse :
        /\ response.status_code < 400
        /\ response.json = "invalid"
        /\ last_status_code' = Some(response.status_code)
        /\ last_response' = response
        /\ candidate_keys' = UpdateInfo(candidate_keys, "invalid_json", NoInt, FALSE)
        /\ candidate_records' =
                _update_candidate_record(candidate_records, idx, "failed", None,
                                         Some(response.status_code), "invalid_json")
    /\ inflight' = inflight \ {idx}
    /\ idx' = idx + 1
    /\ pc' = "loop"
    /\ UNCHANGED <<orchArgs, committed, eligible_count, rule_lookup, submitted,
                   classified, outcome>>

\* A response below 400 without a task id taken as a success.
EmptyTaskId_returns ==
    /\ UNCHANGED notOrch
    /\ pc = "submitting"
    /\ \E response \in HttpResponse :
        LET recs == _update_candidate_record(candidate_records, idx, "success", None,
                                             Some(response.status_code), None)
        IN  /\ response.status_code < 400
            /\ response.json # "invalid"
            /\ response.task_id = ""
            /\ last_status_code' = Some(response.status_code)
            /\ last_response' = response
            /\ candidate_keys' = UpdateInfo(candidate_keys, "success", NoInt, TRUE)
            /\ candidate_records' = recs
            /\ committed' = _commit_candidate_records(recs, committed)
            /\ outcome' = [NoOutcome EXCEPT !.kind = "SubmitOutcome",
                                            !.external_task_id = response.task_id,
                                            !.candidate = idx]
    /\ inflight' = inflight \ {idx}
    /\ pc' = "returned"
    /\ UNCHANGED <<orchArgs, eligible_count, idx, rule_lookup, submitted, classified>>

\* A response below 400 without a task id: failed, continue.
EmptyTaskId ==
    /\ UNCHANGED notOrch
    /\ pc = "submitting"
    /\ \E response \in HttpResponse :
        /\ response.status_code < 400
        /\ response.json # "invalid"
        /\ response.task_id = ""
        /\ last_status_code' = Some(response.status_code)
        /\ last_response' = response
        /\ candidate_keys' = UpdateInfo(candidate_keys, "empty_task_id", NoInt, FALSE)
        /\ candidate_records' =
                _update_candidate_record(candidate_records, idx, "failed", None,
                                         Some(response.status_code), "empty_task_id")
    /\ inflight' = inflight \ {idx}
    /\ idx' = idx + 1
    /\ pc' = "loop"
    /\ UNCHANGED <<orchArgs, committed, eligible_count, rule_lookup, submitted,
                   classified, outcome>>

\* Success without its return: the outcome is recorded and the loop goes on.
Success_continue ==
    /\ UNCHANGED notOrch
    /\ pc = "submitting"
    /\ \E response \in HttpResponse :
        LET recs == _update_candidate_record(candidate_records, idx, "success", None,
                                             Some(response.status_code), None)
        IN  /\ response.status_code < 400
            /\ response.json # "invalid"
            /\ response.task_id # ""
            /\ last_status_code' = Some(response.status_code)
            /\ last_response' = response
            /\ candidate_keys' = UpdateInfo(candidate_keys, "success", NoInt, TRUE)
            /\ candidate_records' = recs
            /\ committed' = _commit_candidate_records(recs, committed)
            /\ outcome' = [NoOutcome EXCEPT !.kind = "SubmitOutcome",
                                            !.external_task_id = response.task_id,
                                            !.candidate = idx]
    /\ inflight' = inflight \ {idx}
    /\ idx' = idx + 1
    /\ pc' = "loop"
    /\ UNCHANGED <<orchArgs, eligible_count, rule_lookup, submitted, classified>>

\* A response with a task id: success, commit, return the outcome.
Success ==
    /\ UNCHANGED notOrch
    /\ pc = "submitting"
    /\ \E response \in HttpResponse :
        LET recs == _update_candidate_record(candidate_records, idx, "success", None,
                                             Some(response.status_code), None)
        IN  /\ response.status_code < 400
            /\ response.json # "invalid"
            /\ response.task_id # ""
            /\ last_status_code' = Some(response.status_code)
            /\ last_response' = response
            /\ candidate_keys' = UpdateInfo(candidate_keys, "success", NoInt, TRUE)
            /\ candidate_records' = recs
            /\ committed' = _commit_candidate_records(recs, committed)
            /\ outcome' = [NoOutcome EXCEPT !.kind = "SubmitOutcome",
                                            !.external_task_id = response.task_id,
                                            !.candidate = idx]
    /\ inflight' = inflight \ {idx}
    /\ pc' = "returned"
    /\ UNCHANGED <<orchArgs, eligible_count, idx, rule_lookup, submitted, classified>>

\* The end of the loop with one reason for every exhausted request.
Exhausted_oneReason ==
    /\ UNCHANGED notOrch
    /\ pc = "loop"
    /\ idx > n_candidates
    /\ committed' = _commit_candidate_records(candidate_records, committed)
    /\ outcome' = [NoOutcome EXCEPT !.kind = "AllCandidatesFailedError",
                                    !.reason = "all_candidates_failed",
                                    !.last_status_code = last_status_code]
    /\ pc' = "raised"
    /\ UNCHANGED <<orchArgs, candidate_records, candidate_keys, eligible_count,
                   last_status_code, idx, rule_lookup, submitted, inflight, classified,
                   last_response>>

\* The loop ran out of candidates: commit and raise AllCandidatesFailedError.
Exhausted ==
    /\ UNCHANGED notOrch
    /\ pc = "loop"
    /\ idx > n_candidates
    /\ IF n_candidates = 0
          THEN /\ outcome' = [NoOutcome EXCEPT !.kind = "ProviderNotAvailableException"]
               /\ UNCHANGED committed
          ELSE /\ committed' = _commit_candidate_records(candidate_records, committed)
               /\ outcome' = [NoOutcome EXCEPT
                    !.kind = "AllCandidatesFailedError",
                    !.reason = IF eligible_count = 0
                                  THEN (IF billing_require_rule
                                           THEN "no_candidate_with_billing_rule"
                                           ELSE "no_eligible_candidates")
                                  ELSE "all_candidates_failed",
                    !.last_status_code = last_status_code]
    /\ pc' = "raised"
    /\ UNCHANGED <<orchArgs, candidate_records, candidate_keys, eligible_count,
                   last_status_code, idx, rule_lookup, submitted, inflight, classified,
                   last_response>>

OrchNext ==
    \/ submit_with_failover
    \/ EnsureInitialized
    \/ FetchCandidates
    \/ EntryRaised
    \/ SkipCandidate
    \/ AttemptCandidate
    \/ SubmitException
    \/ SubmitCancelled
    \/ HttpError
    \/ InvalidJson
    \/ EmptyTaskId
    \/ Success
    \/ Exhausted

(***************************************************************************)
(* Part II.  FailoverEngine.execute (services/candidate/failover.py).      *)
(* Retry policies, the three AttemptResult kinds, the first-chunk probe    *)
(* of a stream and the iterator handed back to the caller.                 *)
(***************************************************************************)

\* Largest RetryPolicy.max_retries / Provider.max_retries.
MaxRetries == 2
\* Longest upstream stream, in chunks.
MaxChunks == 2


RetryModes == {"DISABLED", "ON_DEMAND", "PRE_EXPAND"}
ErrorActions == {"CONTINUE", "BREAK", "RAISE"}

EngCandidate ==
    {c \in [is_skipped : BOOLEAN,
            provider_max_retries : {NoInt} \cup {Some(n) : n \in 1..MaxRetries}] :
        c.is_skipped => c.provider_max_retries = NoInt}

\* An upstream stream: the chunks it yields (chunk 1, chunk 2, ...), then a
\* normal end or an error.
UpstreamStream ==
    [chunks : {[k \in 1..n |-> k] : n \in 0..MaxChunks}, raises : BOOLEAN]

NoEngVerdict == [slot |-> <<0, 0>>, error_type |-> None, action |-> None]

NoIter == [prefetched |-> <<>>, rest |-> <<>>, raises |-> FALSE]

NoResult ==
    [success |-> FALSE, kind |-> None, candidate |-> 0, retry_index |-> 0,
     attempt_count |-> 0, error_type |-> None]

\* The cap without the provider's override.
EffectiveMaxRetries_uncapped(cand, policy) ==
    IF policy.mode = "DISABLED" THEN 1 ELSE policy.max_retries

\* Attempts allowed on one candidate: one under DISABLED, else
\* RetryPolicy.max_retries capped by the provider's max_retries.
EffectiveMaxRetries(cand, policy) ==
    IF policy.mode = "DISABLED" THEN 1
    ELSE IF cand.provider_max_retries = NoInt THEN policy.max_retries
    ELSE Min(policy.max_retries, CHOOSE n \in cand.provider_max_retries : TRUE)

\* The records that exist before execution: one per candidate, and under
\* PRE_EXPAND one per retry slot.
InitialSlots(cands, policy) ==
    {<<i, r>> \in (1..Len(cands)) \X (0..(MaxRetries + 1)) :
        r < (IF policy.mode = "PRE_EXPAND"
                THEN EffectiveMaxRetries(cands[i], policy) ELSE 1)}

\* _update_record on the record of a slot (created on demand for a retry).
e_update_record(recs, slot, status) ==
    [s \in (DOMAIN recs) \cup {slot} |-> IF s = slot THEN status ELSE recs[s]]

SlotAfter(a, b) == a[1] > b[1] \/ (a[1] = b[1] /\ a[2] > b[2])

\* Only the later slots of the successful candidate itself.
RemainingSlots_sameCandidate(recs, slot) ==
    {s \in DOMAIN recs : s[1] = slot[1] /\ s[2] > slot[2]}

\* The pre-created records behind the successful slot.
RemainingSlots(recs, slot) == {s \in DOMAIN recs : SlotAfter(s, slot)}

\* On success under PRE_EXPAND the remaining records become unused.
MarkRemainingUnused(recs, slot, policy) ==
    IF policy.mode = "PRE_EXPAND"
        THEN [s \in DOMAIN recs |->
                IF s \in RemainingSlots(recs, slot) THEN "unused" ELSE recs[s]]
        ELSE recs

\* A probe that reads the first chunk and does not put it back.
ProbeStream_dropFirst(stream) ==
    [prefetched |-> <<>>,
     rest |-> Tail(stream.chunks),
     raises |-> stream.raises]

\* The first-chunk probe: one chunk is read ahead; the iterator handed back
\* yields it first and then what the upstream still holds.
ProbeStream(stream) ==
    [prefetched |-> <<Head(stream.chunks)>>,
     rest |-> Tail(stream.chunks),
     raises |-> stream.raises]

EngInit ==
    /\ e_pc = "idle"
    /\ e_candidates = <<>>
    /\ e_policy = [mode |-> "DISABLED", max_retries |-> 1]
    /\ e_records = <<>>
    /\ e_committed = <<>>
    /\ e_idx = 1
    /\ e_retry = 0
    /\ e_attempts = <<>>
    /\ e_verdict = NoEngVerdict
    /\ e_unused = {}
    /\ e_probe_failed = {}
    /\ e_upstream = <<>>
    /\ e_iter = NoIter
    /\ e_delivered = <<>>
    /\ e_result = NoResult

engArgs == <<e_candidates, e_policy>>
engStream == <<e_upstream, e_iter, e_delivered>>

e_execute ==
    /\ UNCHANGED notEng
    /\ e_pc = "idle"
    /\ \E cands \in SeqsUpTo(EngCandidate, MaxCandidates),
          mode \in RetryModes,
          max_retries \in 1..MaxRetries :
        LET policy == [mode |-> mode, max_retries |-> max_retries]
        IN  /\ e_candidates' = cands
            /\ e_policy' = policy
            /\ e_records' = [s \in InitialSlots(cands, policy) |-> "available"]
    /\ e_pc' = "loop"
    /\ UNCHANGED <<e_committed, e_idx, e_retry, e_attempts, e_verdict, e_unused, e_probe_failed,
                   engStream, e_result>>

\* Step 1: a candidate the scheduler skipped.
e_SkipCandidate ==
    /\ UNCHANGED notEng
    /\ e_pc = "loop"
    /\ e_idx <= Len(e_candidates)
    /\ e_candidates[e_idx].is_skipped
    /\ e_records' = [s \in DOMAIN e_records |->
                        IF s[1] = e_idx THEN "skipped" ELSE e_records[s]]
    /\ e_idx' = e_idx + 1
    /\ e_retry' = 0
    /\ e_verdict' = NoEngVerdict
    /\ UNCHANGED <<e_pc, engArgs, e_committed, e_attempts, e_unused, e_probe_failed,
                   engStream, e_result>>

\* Step 3: the record goes to pending and attempt_func is awaited.
e_Attempt ==
    /\ UNCHANGED notEng
    /\ e_pc = "loop"
    /\ e_idx <= Len(e_candidates)
    /\ ~e_candidates[e_idx].is_skipped
    /\ e_records' = e_update_record(e_records, <<e_idx, e_retry>>, "pending")
    /\ e_attempts' = Append(e_attempts, <<e_idx, e_retry>>)
    /\ e_verdict' = NoEngVerdict
    /\ e_pc' = "attempting"
    /\ UNCHANGED <<engArgs, e_committed, e_idx, e_retry, e_unused, e_probe_failed,
                   engStream, e_result>>

\* Step 4: the attempt succeeded with `status` for its record.
e_Succeed(kind, status) ==
    LET slot == <<e_idx, e_retry>>
        recs == MarkRemainingUnused(e_update_record(e_records, slot, status),
                                    slot, e_policy)
    IN  /\ e_records' = recs
        /\ e_unused' = {s \in DOMAIN recs : recs[s] = "unused"}
        /\ e_committed' = recs
        /\ e_result' = [NoResult EXCEPT !.success = TRUE, !.kind = kind,
                                        !.candidate = e_idx,
                                        !.retry_index = e_retry,
                                        !.attempt_count = Len(e_attempts)]
        /\ UNCHANGED <<engArgs, e_idx, e_retry, e_attempts, e_verdict, e_probe_failed>>

\* Step 5: the attempt failed; the classifier answered `action`.
e_Fail(error_type, action) ==
    LET slot == <<e_idx, e_retry>>
        recs == e_update_record(e_records, slot, "failed")
        retry_left == e_retry + 1 < EffectiveMaxRetries(e_candidates[e_idx], e_policy)
    IN  /\ e_records' = recs
        /\ e_verdict' = [slot |-> slot, error_type |-> error_type, action |-> action]
        /\ e_probe_failed' = IF error_type = "StreamProbeError" /\ e_probe_failed = {}
                                THEN {slot} ELSE e_probe_failed
        /\ IF action = "RAISE"
              THEN /\ e_committed' = recs
                   /\ e_result' = [NoResult EXCEPT !.candidate = e_idx,
                                                   !.retry_index = e_retry,
                                                   !.attempt_count = Len(e_attempts),
                                                   !.error_type = error_type]
                   /\ e_pc' = "returned"
                   /\ UNCHANGED <<e_idx, e_retry>>
              ELSE /\ IF action = "CONTINUE" /\ retry_left
                         THEN e_retry' = e_retry + 1 /\ UNCHANGED e_idx
                         ELSE e_retry' = 0 /\ e_idx' = e_idx + 1
                   /\ e_pc' = "loop"
                   /\ UNCHANGED <<e_committed, e_result>>
        /\ UNCHANGED <<engArgs, e_attempts, e_unused, engStream>>

\* attempt_func raised.
e_Exception ==
    /\ UNCHANGED notEng
    /\ e_pc = "attempting"
    /\ \E action \in ErrorActions : e_Fail("RuntimeError", action)

\* SYNC_RESPONSE: 2xx is success, anything else an HTTP error.
e_SyncResponse ==
    /\ UNCHANGED notEng
    /\ e_pc = "attempting"
    /\ \E http_status \in {200, 500} :
        IF 200 <= http_status /\ http_status < 300
            THEN e_Succeed("sync_response", "success")
                 /\ e_pc' = "returned" /\ UNCHANGED engStream
            ELSE \E action \in ErrorActions : e_Fail("HTTPError", action)

\* ASYNC_SUBMIT: a non-empty provider task id is required.
e_AsyncSubmit ==
    /\ UNCHANGED notEng
    /\ e_pc = "attempting"
    /\ \E provider_task_id \in {"", "task_1"} :
        IF provider_task_id # ""
            THEN e_Succeed("async_submit", "success")
                 /\ e_pc' = "returned" /\ UNCHANGED engStream
            ELSE \E action \in ErrorActions : e_Fail("empty_task_id", action)

\* STREAM without the probe: every stream is handed back as it is.
e_Stream_unprobed ==
    /\ UNCHANGED notEng
    /\ e_pc = "attempting"
    /\ \E stream \in UpstreamStream :
        /\ e_Succeed("stream", "streaming")
        /\ e_upstream' = stream.chunks
        /\ e_iter' = [prefetched |-> <<>>, rest |-> stream.chunks,
                      raises |-> stream.raises]
        /\ e_delivered' = <<>>
        /\ e_pc' = "streaming"

\* STREAM: the first chunk is pulled before anything is handed back.  No
\* chunk before the end or before an error is a stream-probe failure.
e_Stream ==
    /\ UNCHANGED notEng
    /\ e_pc = "attempting"
    /\ \E stream \in UpstreamStream :
        IF stream.chunks # <<>>
            THEN /\ e_Succeed("stream", "streaming")
                 /\ e_upstream' = stream.chunks
                 /\ e_iter' = ProbeStream(stream)
                 /\ e_delivered' = <<>>
                 /\ e_pc' = "streaming"
            ELSE \E action \in ErrorActions : e_Fail("StreamProbeError", action)

\* The caller reads the next chunk of the iterator it was given.
e_ReadChunk ==
    /\ UNCHANGED notEng
    /\ e_pc = "streaming"
    /\ e_iter.prefetched # <<>> \/ e_iter.rest # <<>>
    /\ IF e_iter.prefetched # <<>>
          THEN /\ e_delivered' = Append(e_delivered, Head(e_iter.prefetched))
               /\ e_iter' = [e_iter EXCEPT !.prefetched = Tail(@)]
          ELSE /\ e_delivered' = Append(e_delivered, Head(e_iter.rest))
               /\ e_iter' = [e_iter EXCEPT !.rest = Tail(@)]
    /\ UNCHANGED <<e_pc, engArgs, e_records, e_committed, e_idx, e_retry,
                   e_attempts, e_verdict, e_unused, e_probe_failed, e_upstream, e_result>>

\* The stream ends: stream_completed marks the record success; an error in
\* the body is left to telemetry and the record stays as it is.
e_StreamEnd ==
    /\ UNCHANGED notEng
    /\ e_pc = "streaming"
    /\ e_iter.prefetched = <<>> /\ e_iter.rest = <<>>
    /\ IF e_iter.raises
          THEN e_pc' = "stream_failed" /\ UNCHANGED <<e_records, e_committed>>
          ELSE /\ e_pc' = "stream_completed"
               /\ e_records' = e_update_record(e_records, <<e_idx, e_retry>>, "success")
               /\ e_committed' = e_records'
    /\ UNCHANGED <<engArgs, e_idx, e_retry, e_attempts, e_verdict, e_unused, e_probe_failed,
                   engStream, e_result>>

\* Step 6: no candidate left.
e_Exhausted ==
    /\ UNCHANGED notEng
    /\ e_pc = "loop"
    /\ e_idx > Len(e_candidates)
    /\ e_committed' = e_records
    /\ e_result' = [NoResult EXCEPT
            !.attempt_count = Len(e_attempts),
            !.error_type = IF e_attempts = <<>> THEN "NoEligibleCandidates"
                                                ELSE "AllCandidatesFailed"]
    /\ e_pc' = "returned"
    /\ UNCHANGED <<engArgs, e_records, e_idx, e_retry, e_attempts, e_verdict,
                   e_unused, e_probe_failed, engStream>>

EngNext ==
    \/ e_execute
    \/ e_SkipCandidate
    \/ e_Attempt
    \/ e_Exception
    \/ e_SyncResponse
    \/ e_AsyncSubmit
    \/ e_Stream
    \/ e_ReadChunk
    \/ e_StreamEnd
    \/ e_Exhausted

(***************************************************************************)
(* Part III.  RequestExecutor.execute                                      *)
(* (src/src/services/request/executor.py) for the attempts of concurrent   *)
(* requests on one upstream key, the RPM guard it enters and the caller's  *)
(* handling of what execute returns or raises.                             *)
(***************************************************************************)

Requests == {"r1", "r2"}

\* Largest effective RPM limit of the key.
MaxLimit == 2

\* ExecutionContext: the fields that depend on the limit and the ratio.
\* The counter values it also carries (rpm_current, concurrent_requests)
\* are read for the audit record only and decide nothing in execute.
NoContext ==
    [rpm_limit |-> NoInt, rpm_available_for_new |-> NoInt, reservation_ratio |-> NoInt]

NoCandidateRecord == [status |-> "available", skip_reason |-> None]

Max(a, b) == IF a > b THEN a ELSE b

\* RequestCandidateService.mark_candidate_*
mark_candidate(records, pos, status, skip_reason) ==
    [records EXCEPT ![pos] = [status |-> status, skip_reason |-> skip_reason]]

(***************************************************************************)
(* Part IV.  AdaptiveRPMManager                                            *)
(* (src/src/services/rate_limit/adaptive_rpm.py): what it learns on a      *)
(* ProviderAPIKey from 429 responses and successes, the confidence of      *)
(* what it learned and the limit in force.                                 *)
(*                                                                         *)
(* The clock is read in whole minutes, and calls made within one minute   *)
(* read the same instant.  The confidence and the utilization the key      *)
(* stores are counted in thousandths, the resolution round(x, 3) leaves    *)
(* them with.  The decayed confidence and the average utilization are the  *)
(* doubles the source computes (Float): 0.7 - 20 * 0.01 lies below 0.5,    *)
(* and a sum of utilizations below the sum of their thousandths.  The      *)
(* other numbers the source takes through floats are integers here:        *)
(* int(m * 0.95) of an integer or half-integer m is the floor of the exact *)
(* product, and the comparisons with 0.2, 0.6 and 0.7 are exact on the     *)
(* ratios of the small integers used.  RPMDefaults                         *)
(* (src/config/constants.py) is not among the sources: its values are      *)
(* those of the specification, and where the specification gives none,     *)
(* small ones.                                                             *)
(***************************************************************************)

\* AdaptiveRPMManager.MAX_HISTORY_RECORDS
MAX_HISTORY_RECORDS == 20

\* RPMDefaults
MIN_RPM_LIMIT == 4
MAX_RPM_LIMIT == 8
INCREASE_STEP == 2
UTILIZATION_WINDOW_SIZE == 15
\* UTILIZATION_WINDOW_SECONDS = 300, in minutes
UTILIZATION_WINDOW_MINUTES == 5
\* UTILIZATION_THRESHOLD = 0.7, in thousandths
UTILIZATION_THRESHOLD == 700
\* HIGH_UTILIZATION_RATIO = 0.6, in tenths
HIGH_UTILIZATION_RATIO == 6
MIN_SAMPLES_FOR_DECISION == 5
PROBE_INCREASE_INTERVAL_MINUTES == 30
PROBE_INCREASE_MIN_REQUESTS == 3
COOLDOWN_AFTER_429_MINUTES == 5
MIN_CONSISTENT_OBSERVATIONS == 3
MIN_HEADER_CONFIRMATIONS == 2
\* OBSERVATION_CONSISTENCY_THRESHOLD = 0.2: a deviation of one fifth
OBSERVATION_CONSISTENCY_THRESHOLD == 5
\* HEADER_LIMIT_SAFETY_MARGIN = 0.95, in hundredths
HEADER_LIMIT_SAFETY_MARGIN == 95
\* OBSERVATION_LIMIT_SAFETY_MARGIN = 0.85, in hundredths
OBSERVATION_LIMIT_SAFETY_MARGIN == 85
\* ENFORCEMENT_CONFIDENCE_THRESHOLD = 0.5, in thousandths
ENFORCEMENT_CONFIDENCE_THRESHOLD == 500
\* CONFIDENCE_DECAY_PER_MINUTE = 0.01, in thousandths
CONFIDENCE_DECAY_PER_MINUTE == 10

RateLimitTypes == {"rpm", "concurrent", "unknown"}

\* The value of an Optional[int] that is not None.
Val(opt) == CHOOSE n \in opt : TRUE

\* `x and x > 0` of an Optional[int]
Positive(opt) == opt # NoInt /\ Val(opt) > 0

Abs(n) == IF n < 0 THEN -n ELSE n

\* s[-n:]
LastN(s, n) == IF Len(s) <= n THEN s ELSE SubSeq(s, Len(s) - n + 1, Len(s))

\* s[n:]
DropFirst(s, n) == IF n >= Len(s) THEN <<>> ELSE SubSeq(s, n + 1, Len(s))

\* A ProviderAPIKey row that has learned nothing.
FreshKey(rpm_limit) ==
    [rpm_limit |-> rpm_limit,
     learned_rpm_limit |-> NoInt,
     last_rpm_peak |-> NoInt,
     last_429_at |-> NoInt,
     last_429_type |-> None,
     rpm_429_count |-> 0,
     concurrent_429_count |-> 0,
     utilization_samples |-> <<>>,
     adjustment_history |-> <<>>,
     last_probe_increase_at |-> NoInt]

\* The entry _record_429_observation appends.
Observation(timestamp, current_rpm, upstream_limit) ==
    [type |-> "429_observation", timestamp |-> timestamp,
     current_rpm |-> current_rpm, upstream_limit |-> upstream_limit,
     old_limit |-> NoInt, new_limit |-> NoInt, reason |-> None,
     confidence |-> NoInt]

\* The entry _record_adjustment appends (it has no type); confidence is
\* NoInt when the caller passes none.
Adjustment(timestamp, old_limit, new_limit, reason, confidence) ==
    [type |-> None, timestamp |-> timestamp,
     current_rpm |-> NoInt, upstream_limit |-> NoInt,
     old_limit |-> Some(old_limit), new_limit |-> Some(new_limit),
     reason |-> reason, confidence |-> confidence]

IsObservation(h) == h.type = "429_observation"

\* list.sort(key=timestamp): stable, so an entry goes behind the entries
\* that are not younger.
RECURSIVE InsertByTimestamp(_, _)
InsertByTimestamp(sorted, h) ==
    IF sorted = <<>> THEN <<h>>
    ELSE IF Last(sorted).timestamp <= h.timestamp THEN Append(sorted, h)
    ELSE Append(InsertByTimestamp(SubSeq(sorted, 1, Len(sorted) - 1), h), Last(sorted))

RECURSIVE SortByTimestamp(_)
SortByTimestamp(s) ==
    IF s = <<>> THEN <<>>
    ELSE InsertByTimestamp(SortByTimestamp(SubSeq(s, 1, Len(s) - 1)), Last(s))

\* The newest MAX_HISTORY_RECORDS entries kept, whatever their type.
_trim_history_newest(history) == LastN(history, MAX_HISTORY_RECORDS)

\* _trim_history
_trim_history(history) ==
    IF Len(history) <= MAX_HISTORY_RECORDS THEN history
    ELSE LET observations == SortByTimestamp(SelectSeq(history, IsObservation))
             adjustments == SortByTimestamp(
                                SelectSeq(history, LAMBDA h : ~IsObservation(h)))
             overflow == Len(history) - MAX_HISTORY_RECORDS
             trim_adj == Min(overflow, Len(adjustments))
             kept_adj == DropFirst(adjustments, trim_adj)
             kept_obs == IF overflow - trim_adj > 0
                            THEN DropFirst(observations, overflow - trim_adj)
                            ELSE observations
         IN  SortByTimestamp(kept_obs \o kept_adj)

\* _record_429_observation
_record_429_observation(key, now, current_rpm, upstream_limit) ==
    [key EXCEPT !.adjustment_history =
        _trim_history(Append(@, Observation(now, current_rpm, upstream_limit)))]

\* _record_adjustment
_record_adjustment(key, now, old_limit, new_limit, reason, confidence) ==
    [key EXCEPT !.adjustment_history =
        _trim_history(Append(@, Adjustment(now, old_limit, new_limit, reason, confidence)))]

\* sorted(values)
RECURSIVE SortedInts(_)
SortedInts(values) ==
    IF values = <<>> THEN <<>>
    ELSE LET rest == SortedInts(SubSeq(values, 1, Len(values) - 1))
             v == Last(values)
             k == Cardinality({i \in 1..Len(rest) : rest[i] <= v})
         IN  SubSeq(rest, 1, k) \o <<v>> \o SubSeq(rest, k + 1, Len(rest))

\* Twice statistics.median(values): the median of an even number of
\* integers may end in one half.
Median2(values) ==
    LET s == SortedInts(values)
        n == Len(s)
    IN  IF n % 2 = 1 THEN 2 * s[(n + 1) \div 2]
        ELSE s[n \div 2] + s[n \div 2 + 1]

\* Any values at all taken as agreeing.
_check_consistency_always(values) == values # <<>>

\* _check_consistency: abs(v - med) / med <= 0.2 for every value
_check_consistency(values) ==
    IF values = <<>> THEN FALSE
    ELSE IF Median2(values) <= 0 THEN FALSE
    ELSE \A i \in 1..Len(values) :
            OBSERVATION_CONSISTENCY_THRESHOLD * Abs(2 * values[i] - Median2(values))
                <= Median2(values)

\* The evaluated limit written as it is.
Clamp_unclamped(limit_val) == limit_val

\* limit_val = max(limit_val, MIN_RPM_LIMIT); limit_val = min(limit_val, MAX_RPM_LIMIT)
Clamp(limit_val) == Min(Max(limit_val, MIN_RPM_LIMIT), MAX_RPM_LIMIT)

\* _evaluate_observations: (limit, confidence)
_evaluate_observations(key) ==
    LET observations == SelectSeq(key.adjustment_history, IsObservation)
        header_obs == SelectSeq(observations, LAMBDA o : Positive(o.upstream_limit))
        header_recent == LastN(header_obs, MIN_HEADER_CONFIRMATIONS * 2)
        header_last_n == LastN([i \in 1..Len(header_recent) |->
                                    Val(header_recent[i].upstream_limit)],
                               MIN_HEADER_CONFIRMATIONS)
        local_obs == SelectSeq(observations, LAMBDA o : Positive(o.current_rpm))
        local_recent == LastN(local_obs, MIN_CONSISTENT_OBSERVATIONS * 2)
        local_last_n == LastN([i \in 1..Len(local_recent) |->
                                    Val(local_recent[i].current_rpm)],
                              MIN_CONSISTENT_OBSERVATIONS)
    IN  IF observations = <<>> THEN [limit |-> NoInt, confidence |-> 0]
        ELSE IF /\ Len(header_obs) >= MIN_HEADER_CONFIRMATIONS
                /\ _check_consistency(header_last_n)
            THEN [limit |-> Some(Clamp((Median2(header_last_n) * HEADER_LIMIT_SAFETY_MARGIN)
                                            \div 200)),
                  confidence |-> 800]
        ELSE IF /\ Len(local_obs) >= MIN_CONSISTENT_OBSERVATIONS
                /\ _check_consistency(local_last_n)
            THEN [limit |-> Some(Clamp((Median2(local_last_n) * OBSERVATION_LIMIT_SAFETY_MARGIN)
                                            \div 200)),
                  confidence |-> 600]
        ELSE [limit |-> NoInt, confidence |-> 0]

\* The floats of the source.  Every float it computes lies next to a
\* whole number K of thousandths (next to a half of one, in Utilization)
\* and is held exactly: [k, q, err] is the double
\*     k/1000 + err/(1000 * 2^q),
\* a multiple of 2^-q.  The double nearest to a number is found from the
\* remainder of K * 2^q modulo 1000, which needs no large integer.
Float(k, q, err) == [k |-> k, q |-> q, err |-> err]

\* 0.0
Zero == Float(0, 0, 0)

\* 2^q modulo m
RECURSIVE Pow2Mod(_, _)
Pow2Mod(q, m) ==
    IF q <= 20 THEN (2 ^ q) % m
    ELSE ((2 ^ 20 % m) * Pow2Mod(q - 20, m)) % m

\* floor(log2(K / den)) for the magnitudes the source reaches
Exponent(K, den) ==
    CHOOSE e \in -11..11 :
        IF e >= 0 THEN den * 2 ^ e <= K /\ K < den * 2 ^ (e + 1)
        ELSE den <= K * 2 ^ (-e) /\ K * 2 ^ (-e) < 2 * den

\* K / den is a power of two
IsPowerOfTwo(K, den) ==
    \E e \in -11..11 : IF e >= 0 THEN K = den * 2 ^ e ELSE K * 2 ^ (-e) = den

\* The q of the doubles around K/1000 + E/(1000 * 2^Q), K > 0: they are
\* 2^-q apart, with 53 bits to a double, and twice as close below a power
\* of two.
GridOf(K, E) ==
    52 - Exponent(K, 1000) + (IF IsPowerOfTwo(K, 1000) /\ E < 0 THEN 1 ELSE 0)

\* The whole number nearest to W / D, a half going to the even one; odd
\* tells whether the multiple that W is counted from is odd.
Nearest(W, D, odd) ==
    IF (2 * W + D) % (2 * D) = 0 /\ (odd + (2 * W + D) \div (2 * D)) % 2 = 1
        THEN (2 * W + D) \div (2 * D) - 1
        ELSE (2 * W + D) \div (2 * D)

\* The double on the grid q nearest to K/1000 + E/(1000 * 2^Q), where t is
\* what K/1000 lies above the multiple of 2^-q below it, in 1/(1000 * 2^q).
RoundOnGrid(K, E, Q, q, t) ==
    Float(K, q,
          1000 * Nearest(IF Q > q THEN t * 2 ^ (Q - q) + E
                         ELSE IF E = 0 THEN t
                         ELSE t + E * 2 ^ (q - Q),
                         IF Q > q THEN 1000 * 2 ^ (Q - q) ELSE 1000,
                         IF ((K % 2000) * Pow2Mod(q, 2000)) % 2000 >= 1000
                            THEN 1 ELSE 0)
            - t)

RoundOn(K, E, Q, q) ==
    RoundOnGrid(K, E, Q, q, ((K % 1000) * Pow2Mod(q, 1000)) % 1000)

\* The double nearest to K/1000 + E/(1000 * 2^Q), K > 0, a tie going to the
\* even one (IEEE 754 round-half-even).
FloatRound(K, E, Q) == RoundOn(K, E, Q, GridOf(K, E))

\* The float of a decimal literal or of round(x, 3): the double nearest to
\* k thousandths.
FloatOf(k) == IF k = 0 THEN Zero ELSE FloatRound(k, 0, 0)

\* round(f, 3), in thousandths
Thousandths(f) == f.k

IsZero(f) == f.k = 0 /\ f.err = 0

\* The err of f in units of 1/(1000 * 2^Q), Q >= f.q
Scaled(f, Q) == IF f.err = 0 THEN 0 ELSE f.err * 2 ^ (Q - f.q)

\* a + b
FloatAdd(a, b) ==
    IF IsZero(a) THEN b
    ELSE IF IsZero(b) THEN a
    ELSE FloatRound(a.k + b.k,
                    Scaled(a, Max(a.q, b.q)) + Scaled(b, Max(a.q, b.q)),
                    Max(a.q, b.q))

\* a - b of positive floats.  The difference of two floats next to the same
\* thousandth is exact, and of a negative one only the sign is read.
Difference(K, E, Q) ==
    IF K = 0 /\ E = 0 THEN Zero
    ELSE IF K <= 0 THEN Float(K, Q, E)
    ELSE FloatRound(K, E, Q)

FloatSub(a, b) ==
    IF IsZero(b) THEN a
    ELSE IF IsZero(a) THEN Float(-b.k, b.q, -b.err)
    ELSE Difference(a.k - b.k,
                    Scaled(a, Max(a.q, b.q)) - Scaled(b, Max(a.q, b.q)),
                    Max(a.q, b.q))

\* m * f for a whole number m
FloatTimes(m, f) ==
    IF m = 0 \/ IsZero(f) THEN Zero ELSE FloatRound(m * f.k, m * f.err, f.q)

\* a < b
FloatLess(a, b) ==
    IF a.k # b.k THEN a.k < b.k
    ELSE Scaled(a, Max(a.q, b.q)) < Scaled(b, Max(a.q, b.q))

\* f / n < t thousandths, for a float f, a count n and a literal t that is
\* no power of two.  The quotient rounds to a double below the literal's
\* when it is below the middle between that double and the one before it,
\* or in the middle with the literal's double the odd one.
QuotientBelow(f, n, t, d, Q) ==
    IF f.k # n * t THEN f.k < n * t
    ELSE IF Scaled(f, Q) # n * (d.err - 500) * 2 ^ (Q - d.q)
        THEN Scaled(f, Q) < n * (d.err - 500) * 2 ^ (Q - d.q)
    ELSE ((t % 2000) * Pow2Mod(d.q, 2000) + d.err) % 2000 >= 1000

QuotientUnder(f, n, t, d) == QuotientBelow(f, n, t, d, Max(f.q, d.q))

QuotientLess(f, n, t) == QuotientUnder(f, n, t, FloatOf(t))

\* _get_base_confidence: the confidence of the latest adjustment that
\* carries one, else a re-evaluation, else the baseline of legacy rows.
_get_base_confidence(key) ==
    LET with_confidence ==
            {i \in 1..Len(key.adjustment_history) :
                /\ ~IsObservation(key.adjustment_history[i])
                /\ key.adjustment_history[i].confidence # NoInt}
    IN  IF with_confidence # {}
            THEN Val(key.adjustment_history[
                        CHOOSE i \in with_confidence : \A j \in with_confidence : j <= i
                     ].confidence)
        ELSE IF _evaluate_observations(key).confidence > 0
            THEN _evaluate_observations(key).confidence
        ELSE IF key.learned_rpm_limit # NoInt THEN 300
        ELSE 0

\* max(a, b) and min(a, b) of floats
FloatMax(a, b) == IF FloatLess(a, b) THEN b ELSE a

FloatMin(a, b) == IF FloatLess(b, a) THEN b ELSE a

\* The float CONFIDENCE_DECAY_PER_MINUTE
DecayPerMinute == FloatOf(CONFIDENCE_DECAY_PER_MINUTE)

\* 1.0
One == FloatOf(1000)

\* get_confidence, with its decay over the minutes since the last 429: the
\* float it returns
get_confidence(key, now) ==
    IF key.learned_rpm_limit = NoInt THEN Zero
    ELSE IF _get_base_confidence(key) <= 0 THEN Zero
    ELSE LET base_confidence == FloatOf(_get_base_confidence(key))
             time_decay ==
                IF key.last_429_at # NoInt
                    THEN FloatTimes(Max(0, now - Val(key.last_429_at)), DecayPerMinute)
                    ELSE One
         IN  FloatMin(FloatMax(Zero, FloatSub(base_confidence, time_decay)), One)

\* confidence >= a threshold given in thousandths
AtLeast(confidence, threshold) == ~FloatLess(confidence, FloatOf(threshold))

\* is_enforcement_active
is_enforcement_active(key, now) ==
    AtLeast(get_confidence(key, now), ENFORCEMENT_CONFIDENCE_THRESHOLD)

\* The learned limit returned whenever it is set.
get_effective_limit_undecayed(key, now) ==
    IF key.rpm_limit # NoInt THEN key.rpm_limit ELSE key.learned_rpm_limit

\* get_effective_limit
get_effective_limit(key, now) ==
    IF key.rpm_limit # NoInt THEN key.rpm_limit
    ELSE IF key.learned_rpm_limit # NoInt /\ is_enforcement_active(key, now)
        THEN key.learned_rpm_limit
    ELSE NoInt

\* round(current_rpm / current_limit, 3), in thousandths.  A quotient half
\* way between two thousandths is rounded as its double lies: below the
\* half, above it, or on it, and then to the even thousandth.
Utilization(current_rpm, current_limit) ==
    IF current_limit <= 0 THEN 0
    ELSE IF (2000 * current_rpm) % (2 * current_limit) # current_limit
        THEN (2000 * current_rpm + current_limit) \div (2 * current_limit)
    ELSE LET k == (1000 * current_rpm) \div current_limit
             q == 52 - Exponent(2 * k + 1, 2000)
             t == (((2 * k + 1) % 2000) * Pow2Mod(q, 2000)) % 2000
         IN  IF t = 0 THEN (IF k % 2 = 0 THEN k ELSE k + 1)
             ELSE IF t < 1000 THEN k
             ELSE k + 1

\* _update_utilization_window_unbounded: the window without its size cap
_update_utilization_window_unbounded(samples, now, utilization) ==
    SelectSeq(Append(samples, [ts |-> now, util |-> utilization]),
              LAMBDA s : s.ts > now - UTILIZATION_WINDOW_MINUTES)

\* _update_utilization_window: the samples it stores and returns
_update_utilization_window(samples, now, utilization) ==
    LastN(SelectSeq(Append(samples, [ts |-> now, util |-> utilization]),
                    LAMBDA s : s.ts > now - UTILIZATION_WINDOW_MINUTES),
          UTILIZATION_WINDOW_SIZE)

\* _is_in_cooldown
_is_in_cooldown(key, now) ==
    /\ key.last_429_at # NoInt
    /\ now - Val(key.last_429_at) < COOLDOWN_AFTER_429_MINUTES

\* sum(s["util"] for s in samples): the floats added from the left
RECURSIVE SumUtil(_)
SumUtil(samples) ==
    IF samples = <<>> THEN Zero
    ELSE FloatAdd(SumUtil(SubSeq(samples, 1, Len(samples) - 1)),
                  FloatOf(Last(samples).util))

\* _should_probe_increase
_should_probe_increase(key, samples, now) ==
    /\ key.last_429_at # NoInt
        => now - Val(key.last_429_at) >= PROBE_INCREASE_INTERVAL_MINUTES
    /\ key.last_probe_increase_at # NoInt
        => now - Val(key.last_probe_increase_at) >= PROBE_INCREASE_INTERVAL_MINUTES
    /\ Len(samples) >= PROBE_INCREASE_MIN_REQUESTS
    /\ ~QuotientLess(SumUtil(samples), Len(samples), 300)

\* _check_increase_conditions without the cooldown test that opens it
_check_increase_conditions_noCooldown(key, samples, now, known_boundary) ==
    LET high_util_count ==
            Cardinality({i \in 1..Len(samples) : samples[i].util >= UTILIZATION_THRESHOLD})
    IN  IF /\ Len(samples) >= MIN_SAMPLES_FOR_DECISION
           /\ 10 * high_util_count >= HIGH_UTILIZATION_RATIO * Len(samples)
           /\ Positive(known_boundary) => Val(key.learned_rpm_limit) < Val(known_boundary)
            THEN "high_utilization"
        ELSE IF _should_probe_increase(key, samples, now) THEN "probe_increase"
        ELSE None

\* _check_increase_conditions: the reason to increase, or None
_check_increase_conditions(key, samples, now, known_boundary) ==
    LET high_util_count ==
            Cardinality({i \in 1..Len(samples) : samples[i].util >= UTILIZATION_THRESHOLD})
    IN  IF _is_in_cooldown(key, now) THEN None
        ELSE IF /\ Len(samples) >= MIN_SAMPLES_FOR_DECISION
                /\ 10 * high_util_count >= HIGH_UTILIZATION_RATIO * Len(samples)
                /\ Positive(known_boundary) => Val(key.learned_rpm_limit) < Val(known_boundary)
            THEN "high_utilization"
        ELSE IF _should_probe_increase(key, samples, now) THEN "probe_increase"
        ELSE None

\* _increase_limit taking the full step whatever the known boundary
_increase_limit_pastBoundary(current_limit, known_boundary, is_probe) ==
    LET stepped == IF is_probe THEN current_limit + 1
                   ELSE current_limit + INCREASE_STEP
        new_limit == Min(stepped, MAX_RPM_LIMIT)
    IN  IF new_limit <= current_limit THEN current_limit ELSE new_limit

\* _increase_limit
_increase_limit(current_limit, known_boundary, is_probe) ==
    LET stepped == IF is_probe THEN current_limit + 1
                   ELSE IF Positive(known_boundary)
                            /\ current_limit + INCREASE_STEP > Val(known_boundary)
                       THEN Val(known_boundary)
                   ELSE current_limit + INCREASE_STEP
        new_limit == Min(stepped, MAX_RPM_LIMIT)
    IN  IF new_limit <= current_limit THEN current_limit ELSE new_limit

\* The first assignments of handle_429_error on an adaptive key.
seen_429(key, now, limit_type) ==
    [key EXCEPT !.last_429_at = Some(now),
                !.last_429_type = limit_type,
                !.utilization_samples = <<>>]

\* handle_429_error, the branch of a 429 of unknown type: a key that has a
\* learned limit gets it lowered by a twentieth.
unknown_429(seen) ==
    IF seen.learned_rpm_limit # NoInt THEN
        LET old_limit == Val(seen.learned_rpm_limit)
            new_limit == Max((old_limit * 95) \div 100, MIN_RPM_LIMIT)
        IN  [_record_adjustment(seen, Val(seen.last_429_at), old_limit, new_limit,
                                "unknown_429", NoInt)
                EXCEPT !.learned_rpm_limit = Some(new_limit)]
    ELSE seen

\* handle_429_error, the branch of a 429 of the RPM type: the observation
\* is recorded and the observations are evaluated.
rpm_429(seen, limit_value, current_rpm) ==
    LET now == Val(seen.last_429_at)
        observed == _record_429_observation([seen EXCEPT !.rpm_429_count = @ + 1],
                                            now, current_rpm, limit_value)
        evaluated == _evaluate_observations(observed)
        old_limit == IF seen.learned_rpm_limit = NoInt THEN 0
                     ELSE Val(seen.learned_rpm_limit)
    IN  IF /\ evaluated.limit # NoInt
           /\ evaluated.confidence >= ENFORCEMENT_CONFIDENCE_THRESHOLD
        THEN [_record_adjustment(observed, now, old_limit, Val(evaluated.limit),
                                 "rpm_429", Some(evaluated.confidence))
                EXCEPT !.learned_rpm_limit = evaluated.limit,
                       !.last_rpm_peak =
                            IF Positive(limit_value) THEN limit_value
                            ELSE IF Positive(current_rpm) THEN current_rpm
                            ELSE @]
        ELSE observed

\* handle_429_error taking a concurrent 429 the way it takes one of unknown
\* type.
handle_429_error_concurrentLowers(key, now, limit_type, limit_value, current_rpm) ==
    IF key.rpm_limit # NoInt THEN key
    ELSE IF limit_type = "rpm"
        THEN rpm_429(seen_429(key, now, limit_type), limit_value, current_rpm)
    ELSE unknown_429(seen_429(key, now, limit_type))

\* handle_429_error learning on a key whatever its rpm_limit.
handle_429_error_unfixed(key, now, limit_type, limit_value, current_rpm) ==
    IF limit_type = "rpm"
        THEN rpm_429(seen_429(key, now, limit_type), limit_value, current_rpm)
    ELSE IF limit_type = "concurrent"
        THEN [seen_429(key, now, limit_type) EXCEPT !.concurrent_429_count = @ + 1]
    ELSE unknown_429(seen_429(key, now, limit_type))

\* handle_429_error: the key as the call leaves it
handle_429_error(key, now, limit_type, limit_value, current_rpm) ==
    IF key.rpm_limit # NoInt THEN key
    ELSE IF limit_type = "rpm"
        THEN rpm_429(seen_429(key, now, limit_type), limit_value, current_rpm)
    ELSE IF limit_type = "concurrent"
        THEN [seen_429(key, now, limit_type) EXCEPT !.concurrent_429_count = @ + 1]
    ELSE unknown_429(seen_429(key, now, limit_type))

\* handle_success: the key as the call leaves it
handle_success(key, now, current_rpm) ==
    IF key.rpm_limit # NoInt THEN key
    ELSE IF key.learned_rpm_limit = NoInt THEN key
    ELSE IF FloatLess(get_confidence(key, now), FloatOf(ENFORCEMENT_CONFIDENCE_THRESHOLD))
        THEN key
    ELSE
    LET confidence == get_confidence(key, now)
        current_limit == Val(key.learned_rpm_limit)
        known_boundary == key.last_rpm_peak
        samples == _update_utilization_window(key.utilization_samples, now,
                                              Utilization(current_rpm, current_limit))
        sampled == [key EXCEPT !.utilization_samples = samples]
        increase_reason == _check_increase_conditions(sampled, samples, now, known_boundary)
        is_probe == increase_reason = "probe_increase"
        new_limit == _increase_limit(current_limit, known_boundary, is_probe)
    IN  IF increase_reason # None /\ current_limit < MAX_RPM_LIMIT /\ new_limit > current_limit
        THEN [_record_adjustment(sampled, now, current_limit, new_limit, increase_reason,
                                 Some(Thousandths(confidence)))
                EXCEPT !.learned_rpm_limit = Some(new_limit),
                       !.last_probe_increase_at = IF is_probe THEN Some(now) ELSE @,
                       !.utilization_samples = <<>>]
        ELSE sampled

\* reset_learning
reset_learning(key) == FreshKey(key.rpm_limit)

\* The calls made on the key: what the upstream answered and how many
\* requests the key had served in the current minute.
LimitValues == {NoInt, Some(6), Some(10)}
CurrentRpms == {NoInt, Some(4), Some(7)}
SuccessRpms == {1, 5}
FixedLimits == {NoInt, Some(5)}
\* Minutes that pass between two calls.
Delays == {5, 30}
\* Calls and waits explored after the starting point.
MaxSteps == 2

Call429(dt, limit_type, limit_value, current_rpm) ==
    [op |-> "handle_429_error", dt |-> dt, limit_type |-> limit_type,
     limit_value |-> limit_value, current_rpm |-> current_rpm]

CallSuccess(dt, current_rpm) ==
    [op |-> "handle_success", dt |-> dt, limit_type |-> None,
     limit_value |-> NoInt, current_rpm |-> Some(current_rpm)]

NoCall == [op |-> None, dt |-> 0, limit_type |-> None,
           limit_value |-> NoInt, current_rpm |-> NoInt]

Repeat(n, call) == [i \in 1..n |-> call]

\* Lives of a key, each a sequence of calls with the minutes waited before
\* the call: the key is taken at any point of one of them.
\* Two agreeing headers set the limit; after the cooldown five busy
\* successes raise it to the boundary; an unknown and a concurrent 429.
HeaderLife ==
    Repeat(2, Call429(0, "rpm", Some(6), Some(7)))
        \o <<CallSuccess(5, 5)>> \o Repeat(4, CallSuccess(0, 5))
        \o <<CallSuccess(0, 5), Call429(0, "unknown", NoInt, Some(7)),
             Call429(0, "concurrent", NoInt, Some(7))>>

\* Local counts only: the fourth completes three agreeing ones.
LocalLife ==
    <<Call429(0, "rpm", NoInt, Some(4))>>
        \o Repeat(3, Call429(0, "rpm", NoInt, Some(7)))
        \o <<CallSuccess(5, 5)>> \o Repeat(4, CallSuccess(0, 5))

\* A limit that is hit again and again: the history fills and is trimmed;
\* then quiet requests fill the utilization window.
ThrottledLife ==
    Repeat(22, Call429(0, "rpm", Some(10), Some(7)))
        \o <<CallSuccess(5, 1)>> \o Repeat(15, CallSuccess(0, 1))

\* A quiet key: the utilization window fills, then slides.
QuietLife ==
    Repeat(2, Call429(0, "rpm", Some(10), Some(7)))
        \o <<CallSuccess(5, 1)>> \o Repeat(15, CallSuccess(0, 1))
        \o <<CallSuccess(2, 1), CallSuccess(4, 1)>>

\* Half an hour without a 429, then three requests: a probe.
ProbeLife ==
    Repeat(2, Call429(0, "rpm", Some(6), Some(7)))
        \o <<CallSuccess(30, 5)>> \o Repeat(2, CallSuccess(0, 5))

\* Busy requests right after the 429s that set the limit: the key is in
\* its cooldown while the utilization window fills.
CooldownLife ==
    Repeat(2, Call429(0, "rpm", Some(6), Some(7)))
        \o Repeat(4, CallSuccess(0, 5))

\* A limit raised ten minutes after the 429s, with confidence 0.7: ten
\* minutes later the float 0.7 - 20 * 0.01 lies below 0.5.
DecayLife ==
    Repeat(2, Call429(0, "rpm", Some(6), Some(7)))
        \o <<CallSuccess(10, 5)>> \o Repeat(4, CallSuccess(0, 5))
        \o <<CallSuccess(5, 5)>>

\* Half an hour without a 429, then nine requests whose utilization
\* averages below 0.3; with a tenth of 5 the thousandths add up to 0.3 a
\* sample and the floats to less.
AverageLife ==
    Repeat(2, Call429(0, "rpm", Some(8), Some(7)))
        \o <<CallSuccess(30, 0)>> \o Repeat(4, CallSuccess(0, 0))
        \o <<CallSuccess(0, 1), CallSuccess(0, 7), CallSuccess(0, 7), CallSuccess(0, 1)>>

Lives ==
    {HeaderLife, LocalLife, ThrottledLife, QuietLife, ProbeLife, CooldownLife,
     DecayLife, AverageLife}

\* One call of a life on the key, dt minutes after the call before.
CallOn(at, call) ==
    [now |-> at.now + call.dt,
     key |-> IF call.op = "handle_429_error"
                THEN handle_429_error(at.key, at.now + call.dt, call.limit_type,
                                      call.limit_value, call.current_rpm)
                ELSE handle_success(at.key, at.now + call.dt, Val(call.current_rpm))]

RECURSIVE Lived(_)
Lived(calls) ==
    IF calls = <<>> THEN [now |-> 0, key |-> FreshKey(NoInt)]
    ELSE CallOn(Lived(SubSeq(calls, 1, Len(calls) - 1)), Last(calls))

\* The key before any call.
AdaptInit ==
    /\ a_key = FreshKey(NoInt)
    /\ a_now = 0
    /\ a_last = NoCall
    /\ a_steps = 0

\* The key at some point of one of its lives.
AdaptInitLived ==
    \E life \in Lives : \E n \in 0..Len(life) :
        /\ a_key = Lived(SubSeq(life, 1, n)).key
        /\ a_now = Lived(SubSeq(life, 1, n)).now
        /\ a_last = IF n = 0 THEN NoCall ELSE [life[n] EXCEPT !.dt = 0]
        /\ a_steps = 0

\* The operator sets or clears the fixed limit of the key.
a_configure(rpm_limit) ==
    /\ UNCHANGED notAdapt
    /\ a_steps < MaxSteps
    /\ rpm_limit # a_key.rpm_limit
    /\ a_key' = [a_key EXCEPT !.rpm_limit = rpm_limit]
    /\ a_last' = [NoCall EXCEPT !.op = "configure"]
    /\ a_steps' = a_steps + 1
    /\ UNCHANGED a_now

\* Time passes.
a_wait(dt) ==
    /\ UNCHANGED notAdapt
    /\ a_steps < MaxSteps
    /\ a_now' = a_now + dt
    /\ a_last' = [NoCall EXCEPT !.op = "wait"]
    /\ a_steps' = a_steps + 1
    /\ UNCHANGED a_key

a_handle_429_error(limit_type, limit_value, current_rpm) ==
    /\ UNCHANGED notAdapt
    /\ a_steps < MaxSteps
    /\ a_key' = handle_429_error(a_key, a_now, limit_type, limit_value, current_rpm)
    /\ a_last' = Call429(0, limit_type, limit_value, current_rpm)
    /\ a_steps' = a_steps + 1
    /\ UNCHANGED a_now

a_handle_success(current_rpm) ==
    /\ UNCHANGED notAdapt
    /\ a_steps < MaxSteps
    /\ a_key' = handle_success(a_key, a_now, current_rpm)
    /\ a_last' = CallSuccess(0, current_rpm)
    /\ a_steps' = a_steps + 1
    /\ UNCHANGED a_now

a_reset_learning ==
    /\ UNCHANGED notAdapt
    /\ a_steps < MaxSteps
    /\ a_key' = reset_learning(a_key)
    /\ a_last' = [NoCall EXCEPT !.op = "reset_learning"]
    /\ a_steps' = a_steps + 1
    /\ UNCHANGED a_now

AdaptNext ==
    \/ \E rpm_limit \in FixedLimits : a_configure(rpm_limit)
    \/ \E dt \in Delays : a_wait(dt)
    \/ \E limit_value \in LimitValues, current_rpm \in CurrentRpms :
            a_handle_429_error("rpm", limit_value, current_rpm)
    \/ \E limit_type \in {"concurrent", "unknown"}, current_rpm \in CurrentRpms :
            a_handle_429_error(limit_type, NoInt, current_rpm)
    \/ \E current_rpm \in SuccessRpms : a_handle_success(current_rpm)
    \/ a_reset_learning

\* _trim_history on the histories a key row may hold when an entry has been
\* appended: entries in the order they were written, two to a minute, up
\* to MaxOverflow over the 20 (rows written by earlier versions are longer
\* than those the manager writes itself).  The entries carry their position
\* as current_rpm or old_limit.
MaxOverflow == 2

HistoryLengths == (MAX_HISTORY_RECORDS - 1)..(MAX_HISTORY_RECORDS + MaxOverflow)

\* Where the adjustments lie among the n entries: the k oldest, the k
\* newest, or every m-th entry.
AdjustmentPositions(n) ==
    {1..k : k \in 0..n}
        \cup {(n - k + 1)..n : k \in 0..n}
        \cup {{i \in 1..n : i % m = r} : m \in 2..3, r \in 0..2}

HistoryOf(n, adjusted) ==
    [i \in 1..n |->
        IF i \in adjusted
            THEN Adjustment((i + 1) \div 2, i, MAX_RPM_LIMIT, "rpm_429", Some(800))
            ELSE Observation((i + 1) \div 2, Some(i), NoInt)]

\* No history at hand.
TrimInit ==
    /\ t_history = <<>>
    /\ t_trimmed = {}

TrimInitHistories ==
    /\ \E n \in HistoryLengths : \E adjusted \in AdjustmentPositions(n) :
            t_history = HistoryOf(n, adjusted)
    /\ t_trimmed = {}

t_trim_history ==
    /\ UNCHANGED notTrim
    /\ t_trimmed = {}
    /\ t_trimmed' = {_trim_history(t_history)}
    /\ UNCHANGED t_history

TrimNext == t_trim_history

(***************************************************************************)
(* Part III, continued.  The steps of RequestExecutor.execute.  Each await *)
(* of execute ends a step: other requests, the expiry of the window and    *)
(* the calls others make on the key run in between, and a cancellation     *)
(* arrives at an await.  The key is the ProviderAPIKey row of Part IV:     *)
(* execute reads its effective limit and, on an adaptive key, reports a    *)
(* success to the manager.                                                 *)
(***************************************************************************)

\* math.floor(f) of a double that is not negative.
FloatFloor(f) ==
    IF f.k % 1000 = 0 /\ f.err < 0 THEN f.k \div 1000 - 1 ELSE f.k \div 1000

\* The double a reservation ratio of so many hundredths is.
RatioOf(ratio) == FloatOf(10 * ratio)

\* math.floor(limit * (1 - ratio)), the ratio in hundredths: 1 - ratio and
\* the product are doubles, so that 1 - 0.8 is 0.19999999999999996 and ten
\* times it lies below 2.
FloorShare(limit, ratio) ==
    FloatFloor(FloatTimes(limit, FloatSub(One, RatioOf(ratio))))

\* context.rpm_available_for_new
rpm_available_for_new(limit, is_cached_user, ratio) ==
    IF limit # NoInt /\ ~is_cached_user
        THEN Some(Max(1, FloorShare(CHOOSE n \in limit : TRUE, ratio)))
        ELSE NoInt

\* Calls others make on the key while the requests run.
MaxKeyEvents == 1

\* Minutes that pass in one wait: confidence decays below the threshold.
ExecDelays == {30}

\* A key whose learned limit is enforced and whose utilization window holds
\* four busy samples: the next busy success raises the limit.
BusyLife ==
    Repeat(2, Call429(0, "rpm", Some(6), Some(7)))
        \o <<CallSuccess(5, 5)>> \o Repeat(3, CallSuccess(0, 5))

\* What the reservation manager answers to execute: nothing reserved, or
\* half of the limit.
ExecRatios == {0, 50}

\* The keys the requests may find: fixed limits and adaptive keys.
ExecKeys ==
    {[now |-> 0, key |-> FreshKey(Some(n))] : n \in 1..MaxLimit}
        \cup {Lived(BusyLife)}

ExecInit ==
    /\ x_rpm = 0
    /\ x_key = FreshKey(NoInt)
    /\ x_now = 0
    /\ x_events = 0
    /\ x_acquired = 0
    /\ x_pc = [r \in Requests |-> "idle"]
    /\ x_n = [r \in Requests |-> 0]
    /\ x_cached = [r \in Requests |-> FALSE]
    /\ x_pos = [r \in Requests |-> 1]
    /\ x_record = [r \in Requests |-> <<>>]
    /\ x_context = [r \in Requests |-> NoContext]
    /\ x_count = [r \in Requests |-> NoInt]
    /\ x_cause = [r \in Requests |-> None]
    /\ x_calls = [r \in Requests |-> {}]

keyState == <<x_key, x_now, x_events>>

\* The key as the first request finds it: with a fixed limit, or adaptive
\* with what the manager has learned on it so far.
x_KeyState ==
    /\ UNCHANGED notExec
    /\ \A r \in Requests : x_pc[r] = "idle"
    /\ x_rpm = 0
    /\ x_key = FreshKey(NoInt) /\ x_now = 0 /\ x_events = 0
    /\ \E found \in ExecKeys :
        /\ x_key' = found.key
        /\ x_now' = found.now
    /\ UNCHANGED <<x_events, x_rpm, x_acquired, x_pc, x_n, x_cached, x_pos, x_record,
                   x_context, x_count, x_cause, x_calls>>

\* Time passes: the window of the counter expires with it.
x_wait(dt) ==
    /\ UNCHANGED notExec
    /\ x_events < MaxKeyEvents
    /\ x_now' = x_now + dt
    /\ x_events' = x_events + 1
    /\ x_rpm' = 0
    /\ x_acquired' = 0
    /\ UNCHANGED <<x_key, x_pc, x_n, x_cached, x_pos, x_record,
                   x_context, x_count, x_cause, x_calls>>

\* A caller reports a 429 the key received to the manager.
x_handle_429_error(limit_type, limit_value, current_rpm) ==
    /\ UNCHANGED notExec
    /\ x_events < MaxKeyEvents
    /\ x_key' = handle_429_error(x_key, x_now, limit_type, limit_value, current_rpm)
    /\ x_key' # x_key
    /\ x_events' = x_events + 1
    /\ UNCHANGED <<x_now, x_rpm, x_acquired, x_pc, x_n, x_cached, x_pos, x_record,
                   x_context, x_count, x_cause, x_calls>>

\* What the manager learned on the key is reset.
x_reset_learning ==
    /\ UNCHANGED notExec
    /\ x_events < MaxKeyEvents
    /\ x_key' = reset_learning(x_key)
    /\ x_key' # x_key
    /\ x_events' = x_events + 1
    /\ UNCHANGED <<x_now, x_rpm, x_acquired, x_pc, x_n, x_cached, x_pos, x_record,
                   x_context, x_count, x_cause, x_calls>>

\* Candidates the requests carry, all together.
MaxCarried == 3

RECURSIVE Carried(_)
Carried(rs) ==
    IF rs = {} THEN 0
    ELSE LET r == CHOOSE one \in rs : TRUE
         IN  x_n[r] + Carried(rs \ {r})

\* A request arrives with its candidates; each has a record.
x_NewRequest(r) ==
    /\ UNCHANGED notExec
    /\ x_pc[r] = "idle"
    /\ \E n \in 1..MaxCandidates :
        /\ n + Carried(Requests \ {r}) <= MaxCarried
        /\ x_n' = [x_n EXCEPT ![r] = n]
        /\ x_record' = [x_record EXCEPT ![r] = [i \in 1..n |-> NoCandidateRecord]]
    /\ x_pc' = [x_pc EXCEPT ![r] = "ready"]
    /\ UNCHANGED <<keyState, x_rpm, x_acquired, x_cached, x_pos, x_context,
                   x_count, x_cause, x_calls>>

\* execute up to its first await, for a candidate that is cached or not:
\* the candidate is marked started, the context is new, and
\* get_key_rpm_count is awaited.
x_execute(r) ==
    /\ UNCHANGED notExec
    /\ x_pc[r] = "ready"
    /\ \E is_cached_user \in BOOLEAN :
        x_cached' = [x_cached EXCEPT ![r] = is_cached_user]
    /\ x_context' = [x_context EXCEPT ![r] = NoContext]
    /\ x_count' = [x_count EXCEPT ![r] = NoInt]
    /\ x_cause' = [x_cause EXCEPT ![r] = None]
    /\ x_record' = [x_record EXCEPT ![r] = mark_candidate(@, x_pos[r], "pending", None)]
    /\ x_pc' = [x_pc EXCEPT ![r] = "counting"]
    /\ UNCHANGED <<keyState, x_rpm, x_acquired, x_n, x_pos, x_calls>>

\* The count is back (or the read failed, which counts as 0): the effective
\* limit of the key is read as it is now, the reservation manager answers a
\* ratio, the context is filled, and the guard is entered, which is an
\* await.
x_ContextFilled(r) ==
    /\ UNCHANGED notExec
    /\ x_pc[r] = "counting"
    /\ \E reservation_ratio \in ExecRatios :
        LET effective_key_limit == get_effective_limit(x_key, x_now)
        IN  x_context' = [x_context EXCEPT ![r] =
                [rpm_limit |-> effective_key_limit,
                 rpm_available_for_new |->
                     rpm_available_for_new(effective_key_limit, x_cached[r],
                                           reservation_ratio),
                 reservation_ratio |-> Some(reservation_ratio)]]
    /\ x_pc' = [x_pc EXCEPT ![r] = "guard"]
    /\ UNCHANGED <<keyState, x_rpm, x_acquired, x_n, x_cached, x_pos, x_record,
                   x_count, x_cause, x_calls>>

\* ConcurrencyManager.rpm_guard is not among the sources: the three
\* definitions that follow are section 4.9 of the specification.  The slots
\* of the window a caller may use: all of them when cached, the limit less
\* the reservation when new, one slot at least.
rpm_guard_slots(limit, is_cached_user, ratio) ==
    IF is_cached_user THEN limit
    ELSE Max(1, (limit * (100 - ratio)) \div 100)

\* The compare of the guard's atomic compare-and-increment; without a
\* limit everybody is admitted.
rpm_guard_admits(count, limit, is_cached_user, ratio) ==
    \A l \in limit : count < rpm_guard_slots(l, is_cached_user, ratio)

\* The increment of the compare-and-increment.
rpm_guard_enter(count) == count + 1

\* A guard that hands its slot back when the guarded call is left.
rpm_guard_exit_release(count) == IF count > 0 THEN count - 1 ELSE 0

\* The guard is left: the slot stays counted until the window expires.
rpm_guard_exit(count) == count

\* What rpm_guard answers to the attempt of request r: it is given the
\* limit and the ratio execute wrote to the context.
GuardAdmits(r) ==
    rpm_guard_admits(x_rpm, x_context[r].rpm_limit, x_cached[r],
                     Val(x_context[r].reservation_ratio))

\* rpm_guard admits the attempt: the counter is incremented; inside the
\* guard get_key_rpm_count is awaited again.
x_GuardAcquired(r) ==
    /\ UNCHANGED notExec
    /\ x_pc[r] = "guard"
    /\ GuardAdmits(r)
    /\ x_rpm' = rpm_guard_enter(x_rpm)
    /\ x_acquired' = x_acquired + 1
    /\ x_pc' = [x_pc EXCEPT ![r] = "inside"]
    /\ UNCHANGED <<keyState, x_n, x_cached, x_pos, x_record,
                   x_context, x_count, x_cause, x_calls>>

\* rpm_guard raises ConcurrencyLimitError: execute wraps it in an
\* ExecutionError carrying the context; request_func is not reached.
x_GuardDenied(r) ==
    /\ UNCHANGED notExec
    /\ x_pc[r] = "guard"
    /\ ~GuardAdmits(r)
    /\ x_cause' = [x_cause EXCEPT ![r] = "ConcurrencyLimitError"]
    /\ x_pc' = [x_pc EXCEPT ![r] = "raised"]
    /\ UNCHANGED <<keyState, x_rpm, x_acquired, x_n, x_cached,
                   x_pos, x_record, x_context, x_count, x_calls>>

\* The count read inside the guard is back, as it is now, or the read
\* failed (None): request_func is awaited.
x_CallRequest(r) ==
    /\ UNCHANGED notExec
    /\ x_pc[r] = "inside"
    /\ \E key_rpm_count \in {Some(x_rpm), NoInt} :
        x_count' = [x_count EXCEPT ![r] = key_rpm_count]
    /\ x_calls' = [x_calls EXCEPT ![r] = @ \cup {x_pos[r]}]
    /\ x_pc' = [x_pc EXCEPT ![r] = "calling"]
    /\ UNCHANGED <<keyState, x_rpm, x_acquired, x_n, x_cached, x_pos, x_record,
                   x_context, x_cause>>

\* The key after the success of request r: on an adaptive key, with a count
\* read inside the guard, the manager's handle_success is called.
KeyAfterSuccess(r) ==
    IF x_key.rpm_limit = NoInt /\ x_count[r] # NoInt
        THEN handle_success(x_key, x_now, Val(x_count[r]))
        ELSE x_key

\* request_func returned: the success is reported to the adaptive manager,
\* the record becomes streaming or success, the response is returned
\* with the context, and the guard is left.
x_Response(r) ==
    /\ UNCHANGED notExec
    /\ x_pc[r] = "calling"
    /\ x_key' = KeyAfterSuccess(r)
    /\ \E is_stream \in BOOLEAN :
        x_record' = [x_record EXCEPT ![r] =
            mark_candidate(@, x_pos[r],
                           IF is_stream THEN "streaming" ELSE "success", None)]
    /\ x_pc' = [x_pc EXCEPT ![r] = "returned"]
    /\ x_count' = [x_count EXCEPT ![r] = NoInt]
    /\ x_cached' = [x_cached EXCEPT ![r] = FALSE]
    /\ x_rpm' = rpm_guard_exit(x_rpm)
    /\ UNCHANGED <<x_now, x_events, x_acquired, x_n,
                   x_pos, x_context, x_cause, x_calls>>

\* What request_func may raise: an error of the upstream, or a
\* ConcurrencyLimitError of its own.
RequestErrors == {"UpstreamError", "ConcurrencyLimitError"}

\* request_func raised an Exception: the guard is left and execute raises
\* ExecutionError(cause, context).  A ConcurrencyLimitError it raises is
\* caught by the clause that catches the guard's and reaches the caller as
\* a denial does.
x_RequestError(r) ==
    /\ UNCHANGED notExec
    /\ x_pc[r] = "calling"
    /\ \E cause \in RequestErrors : x_cause' = [x_cause EXCEPT ![r] = cause]
    /\ x_pc' = [x_pc EXCEPT ![r] = "raised"]
    /\ x_count' = [x_count EXCEPT ![r] = NoInt]
    /\ x_rpm' = rpm_guard_exit(x_rpm)
    /\ UNCHANGED <<keyState, x_acquired, x_n, x_cached,
                   x_pos, x_record, x_context, x_calls>>

\* The task is cancelled at one of the awaits of execute (the first count,
\* the entry of the guard, the count inside the guard, request_func):
\* CancelledError is no Exception: nothing is marked, nothing is wrapped,
\* and the locals of execute, its context among them, are gone; a guard
\* that was entered is left.
x_Cancelled(r) ==
    /\ UNCHANGED notExec
    /\ x_pc[r] \in {"counting", "guard", "inside", "calling"}
    /\ x_cause' = [x_cause EXCEPT ![r] = "CancelledError"]
    /\ x_pc' = [x_pc EXCEPT ![r] = "cancelled"]
    /\ x_count' = [x_count EXCEPT ![r] = NoInt]
    /\ x_cached' = [x_cached EXCEPT ![r] = FALSE]
    /\ x_context' = [x_context EXCEPT ![r] = NoContext]
    /\ x_rpm' = IF x_pc[r] \in {"inside", "calling"} THEN rpm_guard_exit(x_rpm)
                                                     ELSE x_rpm
    /\ UNCHANGED <<keyState, x_acquired, x_n,
                   x_pos, x_record, x_calls>>

\* A caller to which a denial is a failure like any other.
x_CallerOnError_failed(r) ==
    /\ UNCHANGED notExec
    /\ x_pc[r] = "raised"
    /\ x_record' = [x_record EXCEPT ![r] = mark_candidate(@, x_pos[r], "failed", None)]
    /\ IF x_pos[r] < x_n[r]
          THEN /\ x_pos' = [x_pos EXCEPT ![r] = @ + 1]
               /\ x_pc' = [x_pc EXCEPT ![r] = "ready"]
          ELSE /\ x_pc' = [x_pc EXCEPT ![r] = "exhausted"]
               /\ UNCHANGED x_pos
    /\ x_context' = [x_context EXCEPT ![r] = NoContext]
    /\ x_cached' = [x_cached EXCEPT ![r] = FALSE]
    /\ UNCHANGED <<keyState, x_rpm, x_acquired, x_n,
                   x_count, x_cause, x_calls>>

\* The caller of execute (the failover engine, which is not among the
\* sources) on an ExecutionError, from section 7 of the specification: a
\* denial by the guard is no final error, the record becomes skipped and
\* the next candidate is tried; any other cause is a failed attempt.
\* execute itself marks nothing on this path: it leaves the record as
\* mark_candidate_started made it.  The error and the context it carried
\* are dropped.
x_CallerOnError(r) ==
    /\ UNCHANGED notExec
    /\ x_pc[r] = "raised"
    /\ x_record' = [x_record EXCEPT ![r] =
            IF x_cause[r] = "ConcurrencyLimitError"
                THEN mark_candidate(@, x_pos[r], "skipped", "concurrency")
                ELSE mark_candidate(@, x_pos[r], "failed", None)]
    /\ IF x_pos[r] < x_n[r]
          THEN /\ x_pos' = [x_pos EXCEPT ![r] = @ + 1]
               /\ x_pc' = [x_pc EXCEPT ![r] = "ready"]
          ELSE /\ x_pc' = [x_pc EXCEPT ![r] = "exhausted"]
               /\ UNCHANGED x_pos
    /\ x_context' = [x_context EXCEPT ![r] = NoContext]
    /\ x_cached' = [x_cached EXCEPT ![r] = FALSE]
    /\ UNCHANGED <<keyState, x_rpm, x_acquired, x_n,
                   x_count, x_cause, x_calls>>

\* The one-minute window of the counter expires.
x_WindowExpires ==
    /\ UNCHANGED notExec
    /\ x_rpm > 0
    /\ x_rpm' = 0
    /\ x_acquired' = 0
    /\ UNCHANGED <<keyState, x_pc, x_n, x_cached, x_pos,
                   x_record, x_context, x_count, x_cause, x_calls>>

ExecNext ==
    \/ \E r \in Requests :
        \/ x_NewRequest(r)
        \/ x_execute(r)
        \/ x_ContextFilled(r)
        \/ x_GuardAcquired(r)
        \/ x_GuardDenied(r)
        \/ x_CallRequest(r)
        \/ x_Response(r)
        \/ x_RequestError(r)
        \/ x_Cancelled(r)
        \/ x_CallerOnError(r)
    \/ x_WindowExpires
    \/ x_KeyState
    \/ \E dt \in ExecDelays : x_wait(dt)
    \/ \E limit_type \in {"rpm", "unknown"} :
            x_handle_429_error(limit_type, NoInt, Some(7))
    \/ x_reset_learning

(***************************************************************************)
(* Part V.  ConcurrencyChecker.check_available                             *)
(* (src/src/services/scheduling/concurrency_checker.py).  The reservation  *)
(* ratio is a float in the source and counted in hundredths here; the      *)
(* share of new callers is the double the source computes (FloorShare).    *)
(***************************************************************************)

\* Largest counter value of the key; the effective limits run up to it.
MaxKeyLimit == 4

\* An effective limit beyond them, at which the share of the doubles may
\* lie below the exact one: 10 * (1 - 0.8) is less than 2.
LargeKeyLimit == 10

\* What the reservation manager answers, in hundredths.
ReservationRatios == {0, 50, 80, 90}

\* A fixed rpm_limit of 0 is returned as it is by get_effective_limit.
KeyLimits == {NoInt} \cup {Some(n) : n \in 0..MaxKeyLimit} \cup {Some(LargeKeyLimit)}

\* max(1, math.floor(effective_key_limit * (1 - reservation_ratio)))
available_for_new_floorOnly(effective_key_limit, reservation_ratio) ==
    FloorShare(effective_key_limit, reservation_ratio)

available_for_new(effective_key_limit, reservation_ratio) ==
    Max(1, FloorShare(effective_key_limit, reservation_ratio))

ConcurrencySnapshot(key_current, key_limit, is_cached_user, reservation_ratio) ==
    [key_current |-> key_current, key_limit |-> key_limit,
     is_cached_user |-> is_cached_user, reservation_ratio |-> reservation_ratio]

\* The branch taken without a concurrency manager: no counter is read.
check_without_manager(effective_key_limit, is_cached_user) ==
    [can_use |-> TRUE,
     snapshot |-> ConcurrencySnapshot(0, effective_key_limit, is_cached_user, NoInt)]

\* The branch taken with a manager, for a caller who may use every slot.
check_all_slots(key_count, effective_key_limit, is_cached_user, reservation_ratio) ==
    [can_use |-> ~(effective_key_limit # NoInt /\ key_count >= Val(effective_key_limit)),
     snapshot |-> ConcurrencySnapshot(key_count, effective_key_limit,
                                      is_cached_user, Some(reservation_ratio))]

\* The branch taken with a manager, for a caller held to the unreserved share.
check_unreserved_slots(key_count, effective_key_limit, is_cached_user, reservation_ratio) ==
    IF effective_key_limit = NoInt
        THEN [can_use |-> TRUE,
              snapshot |-> ConcurrencySnapshot(key_count, NoInt, is_cached_user,
                                               Some(reservation_ratio))]
        ELSE [can_use |-> ~(key_count >= available_for_new(Val(effective_key_limit),
                                                           reservation_ratio)),
              snapshot |-> ConcurrencySnapshot(
                               key_count,
                               Some(available_for_new(Val(effective_key_limit),
                                                      reservation_ratio)),
                               is_cached_user, Some(reservation_ratio))]

\* check_available: (can_use, snapshot).
check_available(manager, key_count, effective_key_limit, is_cached_user, reservation_ratio) ==
    IF ~manager
        THEN check_without_manager(effective_key_limit, is_cached_user)
    ELSE IF is_cached_user
        THEN check_all_slots(key_count, effective_key_limit, is_cached_user,
                             reservation_ratio)
        ELSE check_unreserved_slots(key_count, effective_key_limit, is_cached_user,
                                    reservation_ratio)

NoCheck == [call |-> "none"]

\* A checker with a manager, a key without a limit, no request yet.
CheckInit ==
    /\ k_manager = TRUE
    /\ k_count = 0
    /\ k_limit = NoInt
    /\ k_last = NoCheck
    /\ k_pending = NoCheck

\* ConcurrencyChecker.__init__ stores the manager it is given (or none); the
\* counter is the manager's and is not touched.
k_init(concurrency_manager) ==
    /\ UNCHANGED notCheck
    /\ k_pending = NoCheck
    /\ k_manager' = concurrency_manager
    /\ k_last' = NoCheck
    /\ UNCHANGED <<k_count, k_limit, k_pending>>

\* A request passes the guard of the key and is counted.
k_request ==
    /\ UNCHANGED notCheck
    /\ k_count < MaxKeyLimit
    /\ k_count' = k_count + 1
    /\ UNCHANGED <<k_manager, k_limit, k_last, k_pending>>

\* The minute bucket of the counter expires.
k_expire ==
    /\ UNCHANGED notCheck
    /\ k_count > 0
    /\ k_count' = 0
    /\ UNCHANGED <<k_manager, k_limit, k_last, k_pending>>

\* The effective limit of the key changes (a fixed limit is set or removed,
\* or the adaptive manager learns another one).
k_limit_changes(limit) ==
    /\ UNCHANGED notCheck
    /\ limit # k_limit
    /\ k_limit' = limit
    /\ UNCHANGED <<k_manager, k_count, k_last, k_pending>>

\* check_available(key, is_cached_user) up to its await: the effective limit
\* is read; without a manager the call returns at once, with one it awaits
\* get_key_rpm_count.
k_check_available(is_cached_user) ==
    /\ UNCHANGED notCheck
    /\ k_pending = NoCheck
    /\ IF ~k_manager
          THEN /\ k_last' = [call |-> "check_available",
                             is_cached_user |-> is_cached_user,
                             effective_key_limit |-> k_limit,
                             key_count |-> 0,
                             reservation_ratio |-> 0,
                             manager |-> FALSE,
                             result |-> check_available(FALSE, 0, k_limit,
                                                        is_cached_user, 0)]
               /\ UNCHANGED k_pending
          ELSE /\ k_pending' = [call |-> "check_available",
                                is_cached_user |-> is_cached_user,
                                effective_key_limit |-> k_limit]
               /\ UNCHANGED k_last
    /\ UNCHANGED <<k_manager, k_count, k_limit>>

\* get_key_rpm_count returns the counter as it is now; the reservation
\* manager answers reservation_ratio; check_available decides with the
\* limit it read before the await and returns.
k_counted(reservation_ratio) ==
    /\ UNCHANGED notCheck
    /\ k_pending # NoCheck
    /\ k_last' = [call |-> "check_available",
                  is_cached_user |-> k_pending.is_cached_user,
                  effective_key_limit |-> k_pending.effective_key_limit,
                  key_count |-> k_count,
                  reservation_ratio |-> reservation_ratio,
                  manager |-> TRUE,
                  result |-> check_available(TRUE, k_count,
                                             k_pending.effective_key_limit,
                                             k_pending.is_cached_user,
                                             reservation_ratio)]
    /\ k_pending' = NoCheck
    /\ UNCHANGED <<k_manager, k_count, k_limit>>

\* The task is cancelled while check_available awaits the counter: the
\* call returns nothing.
k_cancelled ==
    /\ UNCHANGED notCheck
    /\ k_pending # NoCheck
    /\ k_pending' = NoCheck
    /\ UNCHANGED <<k_manager, k_count, k_limit, k_last>>

CheckNext ==
    \/ \E concurrency_manager \in BOOLEAN : k_init(concurrency_manager)
    \/ k_request
    \/ k_expire
    \/ \E limit \in KeyLimits : k_limit_changes(limit)
    \/ \E is_cached_user \in BOOLEAN : k_check_available(is_cached_user)
    \/ \E reservation_ratio \in ReservationRatios : k_counted(reservation_ratio)
    \/ k_cancelled

(***************************************************************************)
(* Part VI.  is_format_compatible                                          *)
(* (src/src/core/api_format/conversion/compatibility.py).  The skip        *)
(* reasons are Chinese sentences in the source; each is named here by      *)
(* the check that produces it.                                             *)
(***************************************************************************)

\* str.upper() on the signatures of this model.
Upper ==
    [f \in {"claude:chat", "Claude:Chat", "CLAUDE:CHAT"} |-> "CLAUDE:CHAT"]
    @@ [f \in {"claude:cli", "CLAUDE:CLI"} |-> "CLAUDE:CLI"]
    @@ [f \in {"openai:chat", "OPENAI:CHAT"} |-> "OPENAI:CHAT"]
    @@ [f \in {"openai:cli", "OPENAI:CLI"} |-> "OPENAI:CLI"]

\* data_format_id of a signature: chat and cli share it in the claude
\* family and differ in the openai family (Chat Completions, Responses).
data_format_id ==
    [f \in {"CLAUDE:CHAT", "CLAUDE:CLI"} |-> "claude"]
    @@ [f \in {"OPENAI:CHAT"} |-> "openai"]
    @@ [f \in {"OPENAI:CLI"} |-> "openai_responses"]

can_passthrough_endpoint(client_key, provider_key) ==
    data_format_id[client_key] = data_format_id[provider_key]

ClientFormats == {"claude:chat", "Claude:Chat", "claude:cli", "openai:cli"}

EndpointFormats == {"claude:chat", "OPENAI:CHAT"}

\* Formats an endpoint lists in reject_formats and accept_formats, and the
\* longest such list.
ListedFormats == {"Claude:Chat", "openai:cli"}

MaxListed == 1

\* endpoint_format_acceptance_config: null, a value that is not a dict, or
\* a dict; a key of the dict is absent ({}) or present ({value}).
NoConfig == [kind |-> "none"]

NotADict == [kind |-> "list"]

DictConfig(enabled, reject_formats, accept_formats, stream_conversion) ==
    [kind |-> "dict", enabled |-> enabled, reject_formats |-> reject_formats,
     accept_formats |-> accept_formats, stream_conversion |-> stream_conversion]

Optional(S) == {{}} \cup {{v} : v \in S}

Configs ==
    {NoConfig, NotADict}
    \cup {DictConfig(e, r, a, sc) :
            e \in Optional(BOOLEAN),
            r \in Optional(SeqsUpTo(ListedFormats, MaxListed)),
            a \in Optional(SeqsUpTo(ListedFormats, MaxListed)),
            sc \in Optional(BOOLEAN)}

\* dict.get(key, default)
Get(entry, default) == IF entry = {} THEN default ELSE CHOOSE v \in entry : TRUE

\* client_key in [f.upper() for f in formats]
InUpper(client_key, formats) ==
    \E i \in 1..Len(formats) : Upper[formats[i]] = client_key

Verdict(is_compatible, needs_conversion, skip_reason, registry_consulted) ==
    [is_compatible |-> is_compatible, needs_conversion |-> needs_conversion,
     skip_reason |-> skip_reason, registry_consulted |-> registry_consulted]

endpoint_denial_acceptFirst(client_key, config, is_stream) ==
    IF config.kind = "none" THEN "endpoint_not_configured"
    ELSE IF config.kind # "dict" THEN "endpoint_config_invalid"
    ELSE IF ~Get(config.enabled, FALSE) THEN "endpoint_not_enabled"
    ELSE IF /\ Get(config.accept_formats, <<>>) # <<>>
            /\ ~InUpper(client_key, Get(config.accept_formats, <<>>))
        THEN "client_format_not_accepted"
    ELSE IF InUpper(client_key, Get(config.reject_formats, <<>>))
        THEN "client_format_rejected"
    ELSE IF is_stream /\ ~Get(config.stream_conversion, TRUE)
        THEN "stream_conversion_unsupported"
    ELSE None

\* The checks of the endpoint configuration: the reason of the first one
\* that denies, None when none does.
endpoint_denial(client_key, config, is_stream) ==
    IF config.kind = "none" THEN "endpoint_not_configured"
    ELSE IF config.kind # "dict" THEN "endpoint_config_invalid"
    ELSE IF ~Get(config.enabled, FALSE) THEN "endpoint_not_enabled"
    ELSE IF InUpper(client_key, Get(config.reject_formats, <<>>))
        THEN "client_format_rejected"
    ELSE IF /\ Get(config.accept_formats, <<>>) # <<>>
            /\ ~InUpper(client_key, Get(config.accept_formats, <<>>))
        THEN "client_format_not_accepted"
    ELSE IF is_stream /\ ~Get(config.stream_conversion, TRUE)
        THEN "stream_conversion_unsupported"
    ELSE None

\* Steps 4 and 5: the endpoint checks unless skipped, then the registry.
conversion_decision(client_key, config, is_stream, can_convert_full, skip_endpoint_check) ==
    LET denial == IF skip_endpoint_check THEN None
                  ELSE endpoint_denial(client_key, config, is_stream)
    IN  IF denial # None THEN Verdict(FALSE, FALSE, denial, FALSE)
        ELSE IF ~can_convert_full
            THEN Verdict(FALSE, FALSE, "no_full_converter", TRUE)
        ELSE Verdict(TRUE, TRUE, None, TRUE)

is_format_compatible_equalOnly(client_format, endpoint_api_format, config, is_stream, effective_conversion_enabled, can_convert_full, skip_endpoint_check) ==
    IF Upper[endpoint_api_format] = Upper[client_format]
        THEN Verdict(TRUE, FALSE, None, FALSE)
        ELSE conversion_decision(Upper[client_format], config, is_stream,
                                 can_convert_full, skip_endpoint_check)

\* is_format_compatible, with registry.can_convert_full(client_key,
\* provider_key, require_stream=is_stream) answering can_convert_full.
is_format_compatible(client_format, endpoint_api_format, config, is_stream, effective_conversion_enabled, can_convert_full, skip_endpoint_check) ==
    LET client_key == Upper[client_format]
        provider_key == Upper[endpoint_api_format]
    IN  IF provider_key = client_key
            THEN Verdict(TRUE, FALSE, None, FALSE)
        ELSE IF can_passthrough_endpoint(client_key, provider_key)
            THEN Verdict(TRUE, FALSE, None, FALSE)
        ELSE conversion_decision(client_key, config, is_stream,
                                 can_convert_full, skip_endpoint_check)

GateArgs ==
    [client_format : ClientFormats,
     endpoint_api_format : EndpointFormats,
     config : Configs,
     is_stream : BOOLEAN,
     effective_conversion_enabled : BOOLEAN,
     can_convert_full : BOOLEAN,
     skip_endpoint_check : BOOLEAN]

\* The call of test_same_format_is_compatible, not made yet.
GateInit ==
    /\ g_args = [client_format |-> "claude:chat",
                 endpoint_api_format |-> "claude:chat",
                 config |-> NoConfig,
                 is_stream |-> FALSE,
                 effective_conversion_enabled |-> FALSE,
                 can_convert_full |-> FALSE,
                 skip_endpoint_check |-> FALSE]
    /\ g_result = {}

GateInitArgs ==
    /\ g_args \in GateArgs
    /\ g_result = {}

g_is_format_compatible ==
    /\ UNCHANGED notGate
    /\ g_result = {}
    /\ g_result' = {is_format_compatible(
                        g_args.client_format, g_args.endpoint_api_format,
                        g_args.config, g_args.is_stream,
                        g_args.effective_conversion_enabled,
                        g_args.can_convert_full, g_args.skip_endpoint_check)}
    /\ UNCHANGED g_args

GateNext == g_is_format_compatible

(***************************************************************************)
(* Part VII.  Candidate sorter: CandidateSorter._apply_priority_mode_sort  *)
(* and CacheAwareScheduler.reorder_candidates, in the fixed_order and      *)
(* cache_affinity scheduling modes.  The sorter is not among the sources:   *)
(* it is section 4.5 of the specification, except where                    *)
(* src/tests/unit/test_candidate_sorter_keep_priority_on_conversion.py     *)
(* and src/tests/contracts/test_scheduler_cache_affinity_sort_contract.py  *)
(* pin another behaviour: in global_key mode the smaller                   *)
(* global_priority comes first.  The tests give every candidate the same   *)
(* provider_priority and internal_priority, whose order is therefore the   *)
(* descending one of section 4.5.                                          *)
(***************************************************************************)

\* Longest candidate list given to the sorter.
MaxSorted == 3

SortCandidate(key_id, provider_priority, global_priority, internal_priority, needs_conversion, keep_priority_on_conversion) ==
    [key_id |-> key_id,
     provider_id |-> "p_" \o key_id,
     endpoint_id |-> "e_" \o key_id,
     provider_priority |-> provider_priority,
     global_priority |-> global_priority,
     internal_priority |-> internal_priority,
     needs_conversion |-> needs_conversion,
     keep_priority_on_conversion |-> keep_priority_on_conversion,
     is_skipped |-> FALSE,
     is_cached |-> FALSE]

\* The candidates lists are made of: two of the client's format, one that
\* needs conversion at a provider that keeps its priority, two that need
\* conversion and may be demoted.
SortPool ==
    {SortCandidate("k_keep_1", 2, 1, 1, FALSE, FALSE),
     SortCandidate("k_keep_2", 1, 2, 1, FALSE, FALSE),
     SortCandidate("k_conv_keep", 1, 1, 1, TRUE, TRUE),
     SortCandidate("k_demote_0", 3, 0, 2, TRUE, FALSE),
     SortCandidate("k_demote_9", 3, 9, 1, TRUE, FALSE)}

\* affinity_hash(affinity_key, key_id) for the one affinity key of the
\* model: some fixed order of the keys.
affinity_hash ==
    [k \in {"k_keep_1"} |-> 3] @@ [k \in {"k_keep_2"} |-> 1]
    @@ [k \in {"k_conv_keep"} |-> 2] @@ [k \in {"k_demote_0"} |-> 5]
    @@ [k \in {"k_demote_9"} |-> 4]

PRIORITY_MODE_PROVIDER == "provider"
PRIORITY_MODE_GLOBAL_KEY == "global_key"
SCHEDULING_MODE_FIXED_ORDER == "fixed_order"
SCHEDULING_MODE_CACHE_AFFINITY == "cache_affinity"

\* The primary key of the priority mode.
primary_priority(c, priority_mode) ==
    IF priority_mode = PRIORITY_MODE_PROVIDER THEN c.provider_priority
    ELSE c.global_priority

\* a goes before b by the primary key of the mode: the larger
\* provider_priority in provider mode, the smaller global_priority in
\* global_key mode.
primary_before(a, b, priority_mode) ==
    IF priority_mode = PRIORITY_MODE_PROVIDER
        THEN a.provider_priority > b.provider_priority
        ELSE a.global_priority < b.global_priority

\* A sorter that puts the larger number first in both modes.
priority_less_largerFirst(a, b, priority_mode, use_hash) ==
    \/ primary_priority(a, priority_mode) > primary_priority(b, priority_mode)
    \/ /\ primary_priority(a, priority_mode) = primary_priority(b, priority_mode)
       /\ \/ a.internal_priority > b.internal_priority
          \/ /\ a.internal_priority = b.internal_priority
             /\ use_hash
             /\ affinity_hash[a.key_id] < affinity_hash[b.key_id]

\* a sorts strictly before b: by the primary key of the mode, then the
\* larger internal_priority, then (with an affinity key) the smaller hash.
priority_less(a, b, priority_mode, use_hash) ==
    \/ primary_before(a, b, priority_mode)
    \/ /\ primary_priority(a, priority_mode) = primary_priority(b, priority_mode)
       /\ \/ a.internal_priority > b.internal_priority
          \/ /\ a.internal_priority = b.internal_priority
             /\ use_hash
             /\ affinity_hash[a.key_id] < affinity_hash[b.key_id]

\* One step of a stable sort: c goes before the first entry it precedes.
InsertByPriority(sorted, c, priority_mode, use_hash) ==
    LET later == {i \in 1..Len(sorted) :
                    priority_less(c, sorted[i], priority_mode, use_hash)}
        at == IF later = {} THEN Len(sorted) + 1
              ELSE CHOOSE i \in later : \A j \in later : i <= j
    IN  SubSeq(sorted, 1, at - 1) \o <<c>> \o SubSeq(sorted, at, Len(sorted))

RECURSIVE SortByPriority(_, _, _)
SortByPriority(cands, priority_mode, use_hash) ==
    IF cands = <<>> THEN <<>>
    ELSE InsertByPriority(
             SortByPriority(SubSeq(cands, 1, Len(cands) - 1), priority_mode, use_hash),
             cands[Len(cands)], priority_mode, use_hash)

is_demoted_ignoresProvider(c, global_keep_priority) ==
    ~global_keep_priority /\ c.needs_conversion

\* Whether the candidate goes to the demoted group.
is_demoted(c, global_keep_priority) ==
    /\ ~global_keep_priority
    /\ c.needs_conversion
    /\ ~c.keep_priority_on_conversion

KeptOf(cands, global_keep_priority) ==
    SelectSeq(cands, LAMBDA c : ~is_demoted(c, global_keep_priority))

DemotedOf(cands, global_keep_priority) ==
    SelectSeq(cands, LAMBDA c : is_demoted(c, global_keep_priority))

\* CandidateSorter._apply_priority_mode_sort
_apply_priority_mode_sort(cands, priority_mode, global_keep_priority, use_hash) ==
    SortByPriority(KeptOf(cands, global_keep_priority), priority_mode, use_hash)
    \o SortByPriority(DemotedOf(cands, global_keep_priority), priority_mode, use_hash)

\* CacheAffinity: the target the affinity manager answers, None when it
\* has none for the caller.
CacheAffinity(provider_id, endpoint_id, key_id) ==
    [provider_id |-> provider_id, endpoint_id |-> endpoint_id, key_id |-> key_id]

AffinityOf(c) == CacheAffinity(c.provider_id, c.endpoint_id, c.key_id)

NoAffinity == [provider_id |-> None, endpoint_id |-> None, key_id |-> None]

affinity_match_keyOnly(c, affinity) == c.key_id = affinity.key_id

\* Whether the candidate is the target of the affinity.
affinity_match(c, affinity) ==
    /\ c.provider_id = affinity.provider_id
    /\ c.endpoint_id = affinity.endpoint_id
    /\ c.key_id = affinity.key_id

Without(cands, i) == SubSeq(cands, 1, i - 1) \o SubSeq(cands, i + 1, Len(cands))

Cached(c) == [c EXCEPT !.is_cached = TRUE]

\* The target leads the whole list.
promote_to_front(sorted, i) == <<Cached(sorted[i])>> \o Without(sorted, i)

\* The target leads the group it is sorted in.
promote_within_group(sorted, i, global_keep_priority) ==
    LET rest == Without(sorted, i)
    IN  IF is_demoted(sorted[i], global_keep_priority)
            THEN KeptOf(rest, global_keep_priority) \o <<Cached(sorted[i])>>
                 \o DemotedOf(rest, global_keep_priority)
            ELSE <<Cached(sorted[i])>> \o rest

promote_always_to_front(sorted, i, is_skipped, global_keep_priority) ==
    promote_to_front(sorted, i)

promote_always_within_group(sorted, i, is_skipped, global_keep_priority) ==
    promote_within_group(sorted, i, global_keep_priority)

\* Where the target goes: a healthy one to the front of the list, a
\* skipped one to the front of its group.
promote(sorted, i, is_skipped, global_keep_priority) ==
    IF ~is_skipped THEN promote_to_front(sorted, i)
    ELSE promote_within_group(sorted, i, global_keep_priority)

\* The cache-affinity step of reorder_candidates.
_apply_cache_affinity(sorted, affinity, global_keep_priority) ==
    LET matching == {i \in 1..Len(sorted) : affinity_match(sorted[i], affinity)}
    IN  IF affinity = NoAffinity \/ matching = {} THEN sorted
        ELSE LET i == CHOOSE i \in matching : \A j \in matching : i <= j
             IN  promote(sorted, i, sorted[i].is_skipped, global_keep_priority)

\* CacheAwareScheduler.reorder_candidates
reorder_candidates(cands, priority_mode, scheduling_mode, global_keep_priority, affinity_key, affinity) ==
    LET use_affinity == scheduling_mode = SCHEDULING_MODE_CACHE_AFFINITY
                        /\ affinity_key # None
        sorted == _apply_priority_mode_sort(cands, priority_mode,
                                            global_keep_priority, use_affinity)
    IN  IF use_affinity /\ cands # <<>>
            THEN _apply_cache_affinity(sorted, affinity, global_keep_priority)
            ELSE sorted

\* Candidate lists: different candidates of the pool, at most one of them
\* skipped.
Injective(f) == \A i, j \in DOMAIN f : f[i] = f[j] => i = j

SkippedAt(cands, i) ==
    [j \in DOMAIN cands |-> IF j = i THEN [cands[j] EXCEPT !.is_skipped = TRUE]
                            ELSE cands[j]]

CandidateLists ==
    {SkippedAt(cands, i) :
        cands \in {l \in SeqsUpTo(SortPool, MaxSorted) : Injective(l)},
        i \in 0..MaxSorted}

\* What the affinity manager may answer: nothing, a candidate of the pool,
\* a key that is gone, a known key behind another endpoint.
Affinities ==
    {NoAffinity, CacheAffinity("p_k_gone", "e_k_gone", "k_gone"),
     CacheAffinity("p_k_keep_1", "e_other", "k_keep_1")}
    \cup {AffinityOf(c) : c \in SortPool}

SortArgs ==
    {a \in [candidates : CandidateLists,
            priority_mode : {PRIORITY_MODE_PROVIDER, PRIORITY_MODE_GLOBAL_KEY},
            scheduling_mode : {SCHEDULING_MODE_FIXED_ORDER,
                               SCHEDULING_MODE_CACHE_AFFINITY},
            global_keep_priority : BOOLEAN,
            affinity_key : {None, "a1"},
            affinity : Affinities] :
        a.affinity_key = None => a.affinity = NoAffinity}

\* A scheduler with its default modes and nothing to sort.
SortInit ==
    /\ s_args = [candidates |-> <<>>,
                 priority_mode |-> PRIORITY_MODE_PROVIDER,
                 scheduling_mode |-> SCHEDULING_MODE_CACHE_AFFINITY,
                 global_keep_priority |-> FALSE,
                 affinity_key |-> None,
                 affinity |-> NoAffinity]
    /\ s_result = {}

SortInitArgs ==
    /\ s_args \in SortArgs
    /\ s_result = {}

s_apply_priority_mode_sort ==
    /\ UNCHANGED notSort
    /\ s_result = {}
    /\ s_result' = {[call |-> "_apply_priority_mode_sort",
                     out |-> _apply_priority_mode_sort(
                                 s_args.candidates, s_args.priority_mode,
                                 s_args.global_keep_priority,
                                 s_args.affinity_key # None
                                 /\ s_args.scheduling_mode
                                        = SCHEDULING_MODE_CACHE_AFFINITY)]}
    /\ UNCHANGED s_args

s_reorder_candidates ==
    /\ UNCHANGED notSort
    /\ s_result = {}
    /\ s_result' = {[call |-> "reorder_candidates",
                     out |-> reorder_candidates(
                                 s_args.candidates, s_args.priority_mode,
                                 s_args.scheduling_mode,
                                 s_args.global_keep_priority,
                                 s_args.affinity_key, s_args.affinity)]}
    /\ UNCHANGED s_args

SortNext ==
    \/ s_apply_priority_mode_sort
    \/ s_reorder_candidates

(***************************************************************************)
(* Part VIII.  Access restrictions of the caller:                          *)
(* AccessRestrictions.from_api_key_and_user                                *)
(* (src/src/core/access_restrictions.py), get_effective_restrictions and   *)
(* merge_restriction_sets (src/src/services/cache/restriction_checker.py), *)
(* and the allowed_models values of src/src/core/model_permissions.py.     *)
(* A value that may be None is the empty set or a singleton; a list is a   *)
(* sequence; a Python set is a set.                                        *)
(***************************************************************************)

\* set(list)
SetOf(list) == {list[i] : i \in DOMAIN list}

\* Model names, with their place in the order sorted() puts them in.
ModelNames == {"claude-sonnet-4", "gpt-4o"}

ModelRank == [m \in ModelNames |-> IF m = "claude-sonnet-4" THEN 1 ELSE 2]

\* sorted(set of model names)
RECURSIVE sorted(_)
sorted(names) ==
    IF names = {} THEN <<>>
    ELSE LET first == CHOOSE m \in names : \A o \in names : ModelRank[m] <= ModelRank[o]
         IN  <<first>> \o sorted(names \ {first})

\* allowed_models: None, a list of model names, a dict from format to list,
\* or a value of some other type.
NoModels == [kind |-> "none"]

ListOf(models) == [kind |-> "list", models |-> models]

DictOf(entries) == [kind |-> "dict", entries |-> entries]

OtherType == [kind |-> "str"]

\* The values of APIFormat, which merge_allowed_models enumerates, and
\* str.upper() on the formats a caller may name; "OTHER" is a format the
\* enumeration does not list.
KnownFormats == {"OPENAI", "CLAUDE"}

UpperFormat ==
    [f \in {"OPENAI", "openai"} |-> "OPENAI"]
    @@ [f \in {"CLAUDE", "claude"} |-> "CLAUDE"]
    @@ [f \in {"OTHER"} |-> "OTHER"]
    @@ [f \in {"__DEFAULT__"} |-> "__DEFAULT__"]

\* normalize_allowed_models: the set of names the value admits under the
\* format, or None when it admits every name.
normalize_allowed_models(allowed_models, api_format) ==
    IF allowed_models.kind = "none" THEN {}
    ELSE IF allowed_models.kind = "list" THEN Some(SetOf(allowed_models.models))
    ELSE IF allowed_models.kind = "dict"
        THEN LET entries == allowed_models.entries
             IN  IF api_format = None
                    THEN LET all_models == UNION {SetOf(entries[k]) : k \in DOMAIN entries}
                         IN  IF all_models # {} THEN Some(all_models) ELSE {}
                    ELSE LET key == UpperFormat[api_format]
                         IN  IF key \in DOMAIN entries THEN Some(SetOf(entries[key]))
                             ELSE IF "*" \in DOMAIN entries THEN Some(SetOf(entries["*"]))
                             ELSE {}
    ELSE {}

\* check_model_allowed, without a resolved name
check_model_allowed(model_name, allowed_models, api_format) ==
    LET allowed_set == normalize_allowed_models(allowed_models, api_format)
    IN  IF allowed_set = {} THEN TRUE
        ELSE model_name \in Val(allowed_set)

\* merge_sets of merge_allowed_models: None restricts nothing
merge_sets(a, b) ==
    IF a = {} THEN b
    ELSE IF b = {} THEN a
    ELSE Some(Val(a) \cap Val(b))

\* The dict branch of merge_allowed_models.
merge_by_format(allowed_models_1, allowed_models_2) ==
    LET per_format ==
            [fmt \in KnownFormats |->
                merge_sets(normalize_allowed_models(allowed_models_1, fmt),
                           normalize_allowed_models(allowed_models_2, fmt))]
        default_set ==
            merge_sets(normalize_allowed_models(allowed_models_1, "__DEFAULT__"),
                       normalize_allowed_models(allowed_models_2, "__DEFAULT__"))
        can_use_wildcard ==
            default_set # {} /\ \A fmt \in KnownFormats : per_format[fmt] # {}
        merged_dict ==
            IF can_use_wildcard
                THEN [k \in {"*"} |-> sorted(Val(default_set))]
                     @@ [fmt \in {f \in KnownFormats : per_format[f] # default_set}
                            |-> sorted(Val(per_format[fmt]))]
                ELSE [fmt \in {f \in KnownFormats : per_format[f] # {}}
                            |-> sorted(Val(per_format[fmt]))]
    IN  IF DOMAIN merged_dict = {} THEN NoModels ELSE DictOf(merged_dict)

\* merge_allowed_models
merge_allowed_models(allowed_models_1, allowed_models_2) ==
    IF allowed_models_1.kind = "none" THEN allowed_models_2
    ELSE IF allowed_models_2.kind = "none" THEN allowed_models_1
    ELSE IF allowed_models_1.kind = "list" /\ allowed_models_2.kind = "list"
        THEN ListOf(sorted(SetOf(allowed_models_1.models)
                            \cap SetOf(allowed_models_2.models)))
    ELSE merge_by_format(allowed_models_1, allowed_models_2)

\* An ApiKey or a User as far as the restrictions read it.  The two simple
\* axes hold None or a list; allowed_models holds an allowed_models value.
NoRestrictions ==
    [allowed_providers |-> {}, allowed_models |-> NoModels, allowed_api_formats |-> {}]

\* AccessRestrictions.from_api_key_and_user: api_key and user are None ({})
\* or a row.
from_api_key_and_user(api_key, user) ==
    LET of_key ==
            IF api_key # {} THEN Val(api_key) ELSE NoRestrictions
        of_user(axis, so_far) ==
            IF user # {} /\ so_far = {} /\ Val(user)[axis] # {}
                THEN Val(user)[axis] ELSE so_far
        models_of_user(so_far) ==
            IF user # {} /\ so_far.kind = "none" /\ Val(user).allowed_models.kind # "none"
                THEN Val(user).allowed_models ELSE so_far
    IN  [allowed_providers |-> of_user("allowed_providers", of_key.allowed_providers),
         allowed_models |-> models_of_user(of_key.allowed_models),
         allowed_api_formats |-> of_user("allowed_api_formats", of_key.allowed_api_formats)]

\* merge_restriction_sets: `if x` is false for None and for an empty list.
merge_restriction_sets(key_restriction, user_restriction) ==
    LET key_set == IF key_restriction # {} /\ Val(key_restriction) # <<>>
                      THEN Some(SetOf(Val(key_restriction))) ELSE {}
        user_set == IF user_restriction # {} /\ Val(user_restriction) # <<>>
                       THEN Some(SetOf(Val(user_restriction))) ELSE {}
    IN  IF key_set # {} /\ user_set # {}
            THEN Some(Val(key_set) \cap Val(user_set))
        ELSE IF key_set # {} THEN key_set
        ELSE user_set

\* get_effective_restrictions: user is user_api_key.user.
get_effective_restrictions(user_api_key, user) ==
    IF user_api_key = {} THEN NoRestrictions
    ELSE [allowed_providers |->
            merge_restriction_sets(Val(user_api_key).allowed_providers,
                                   IF user # {} THEN Val(user).allowed_providers ELSE {}),
          allowed_models |->
            merge_allowed_models(Val(user_api_key).allowed_models,
                                 IF user # {} THEN Val(user).allowed_models ELSE NoModels),
          allowed_api_formats |->
            merge_restriction_sets(Val(user_api_key).allowed_api_formats,
                                   IF user # {} THEN Val(user).allowed_api_formats ELSE {})]

ProviderLists == {<<>>, <<"p1">>, <<"p2">>, <<"p1", "p2">>}

FormatLists == {<<>>, <<"openai:chat">>}

RestrictedModels == {NoModels, ListOf(<<"gpt-4o">>), ListOf(<<"claude-sonnet-4", "gpt-4o">>)}

\* The rows an ApiKey or a User may be.
RestrictionRows ==
    [allowed_providers : Optional(ProviderLists),
     allowed_models : RestrictedModels,
     allowed_api_formats : Optional(FormatLists)]

RestrictArgs == [api_key : Optional(RestrictionRows), user : Optional(RestrictionRows)]

RestrictInit ==
    /\ r_args = [api_key |-> {}, user |-> {}]
    /\ r_result = {}

RestrictInitArgs ==
    /\ r_args \in RestrictArgs
    /\ r_result = {}

\* The lists a model entry may hold, and the allowed_models values built
\* from them.
ModelLists == {<<>>, <<"gpt-4o">>, <<"gpt-4o", "claude-sonnet-4">>}

DictKeys == {"OPENAI", "*", "OTHER"}

ModelDicts == UNION {[keys -> ModelLists] : keys \in SUBSET DictKeys}

AllowedModelsValues ==
    {NoModels} \cup {ListOf(l) : l \in ModelLists} \cup {DictOf(d) : d \in ModelDicts}

MergeArgs == [allowed_models_1 : AllowedModelsValues, allowed_models_2 : AllowedModelsValues]

MergeInit ==
    /\ m_args = [allowed_models_1 |-> NoModels, allowed_models_2 |-> NoModels]
    /\ m_result = {}

MergeInitArgs ==
    /\ m_args \in MergeArgs
    /\ m_result = {}

\* AccessRestrictions.from_api_key_and_user(api_key, user)
r_from_api_key_and_user ==
    /\ r_result = {}
    /\ r_result' = {[call |-> "from_api_key_and_user",
                     out |-> from_api_key_and_user(r_args.api_key, r_args.user)]}
    /\ UNCHANGED r_args
    /\ UNCHANGED notRestrict

\* get_effective_restrictions(user_api_key): the User is the one the ApiKey
\* belongs to, so there is none without an ApiKey.
r_get_effective_restrictions ==
    /\ r_result = {}
    /\ r_args.api_key = {} => r_args.user = {}
    /\ r_result' = {[call |-> "get_effective_restrictions",
                     out |-> get_effective_restrictions(r_args.api_key, r_args.user)]}
    /\ UNCHANGED r_args
    /\ UNCHANGED notRestrict

RestrictNext ==
    \/ r_from_api_key_and_user
    \/ r_get_effective_restrictions

\* merge_allowed_models(allowed_models_1, allowed_models_2)
m_merge_allowed_models ==
    /\ m_result = {}
    /\ m_result' = {merge_allowed_models(m_args.allowed_models_1, m_args.allowed_models_2)}
    /\ UNCHANGED m_args
    /\ UNCHANGED notMerge

MergeNext == m_merge_allowed_models

(***************************************************************************)
(* Part IX.  Keys of a provider that count for availability:               *)
(* ModelAvailabilityQuery.get_providers_with_active_keys and               *)
(* get_provider_key_rules (src/src/services/model/availability.py).  The   *)
(* rows are the active ProviderAPIKey rows of the providers asked for, in  *)
(* the order the query returns them.                                       *)
(***************************************************************************)

\* api_formats of a key: None, a list of strings, or a value of another type.
NoFormats == [kind |-> "none"]

FormatsOf(formats) == [kind |-> "list", formats |-> formats]

\* normalize_endpoint_signature on a string: the lower-case family:kind, or
\* the default signature when the string does not parse.
DEFAULT_ENDPOINT_SIGNATURE == "claude:chat"

normalize_endpoint_signature ==
    [value \in {"openai:chat", "OPENAI:CHAT"} |-> "openai:chat"]
    @@ [value \in {"claude:chat"} |-> "claude:chat"]
    @@ [value \in {"legacy"} |-> DEFAULT_ENDPOINT_SIGNATURE]

\* {normalize_endpoint_signature(f) for f in formats if f}
NormalizedFormats(formats) ==
    {normalize_endpoint_signature[formats[i]] : i \in {j \in DOMAIN formats : formats[j] # ""}}

\* provider_to_endpoint_formats.get(provider_id), an absent provider giving
\* the empty set: the code skips None and the empty set alike.
EndpointFormatsOf(provider_to_endpoint_formats, provider_id) ==
    IF provider_id \in DOMAIN provider_to_endpoint_formats
        THEN provider_to_endpoint_formats[provider_id] ELSE {}

\* The formats a key row may be used for, None ({}) when the row is skipped
\* before its formats are known.
UsableFormats(row, api_formats, provider_to_endpoint_formats) ==
    LET endpoint_formats == EndpointFormatsOf(provider_to_endpoint_formats, row.provider_id)
        target_formats == NormalizedFormats(api_formats)
    IN  IF endpoint_formats = {} THEN {}
        ELSE IF row.api_formats.kind = "none"
            THEN Some(endpoint_formats \cap target_formats)
        ELSE IF row.api_formats.kind # "list" THEN {}
        ELSE Some(NormalizedFormats(row.api_formats.formats)
                    \cap endpoint_formats \cap target_formats)

\* get_providers_with_active_keys: the query selects provider_id and
\* api_formats only.
get_providers_with_active_keys(key_rows, api_formats, provider_to_endpoint_formats) ==
    {key_rows[i].provider_id : i \in
        {j \in DOMAIN key_rows :
            LET usable == UsableFormats(key_rows[j], api_formats, provider_to_endpoint_formats)
            IN  usable # {} /\ Val(usable) # {}}}

\* The rule of one key row, None ({}) when the row is skipped.
KeyRule(row, api_formats, provider_to_endpoint_formats) ==
    LET usable == UsableFormats(row, api_formats, provider_to_endpoint_formats)
    IN  IF usable = {} \/ Val(usable) = {} THEN {}
        ELSE IF row.allowed_models.kind \in {"none", "list"}
            THEN Some([allowed_models |-> row.allowed_models, usable_formats |-> Val(usable)])
        ELSE {}

\* get_provider_key_rules: for each provider with a rule, its rules in the
\* order of the rows.
RECURSIVE RulesOf(_, _, _, _)
RulesOf(key_rows, provider_id, api_formats, provider_to_endpoint_formats) ==
    IF key_rows = <<>> THEN <<>>
    ELSE LET rule == KeyRule(Head(key_rows), api_formats, provider_to_endpoint_formats)
             rest == RulesOf(Tail(key_rows), provider_id, api_formats,
                             provider_to_endpoint_formats)
         IN  IF Head(key_rows).provider_id = provider_id /\ rule # {}
                THEN <<Val(rule)>> \o rest
                ELSE rest

get_provider_key_rules(key_rows, api_formats, provider_to_endpoint_formats) ==
    LET with_rules ==
            {key_rows[i].provider_id : i \in
                {j \in DOMAIN key_rows :
                    KeyRule(key_rows[j], api_formats, provider_to_endpoint_formats) # {}}}
    IN  [provider_id \in with_rules |->
            RulesOf(key_rows, provider_id, api_formats, provider_to_endpoint_formats)]

ProviderIds == {"p1", "p2"}

KeyRows ==
    [provider_id : ProviderIds,
     allowed_models : {NoModels, ListOf(<<"gpt-4o">>),
                       DictOf([k \in {"OPENAI"} |-> <<"gpt-4o">>]), OtherType},
     api_formats : {NoFormats, FormatsOf(<<"openai:chat">>),
                    FormatsOf(<<"legacy", "">>), OtherType}]

KeyRowLists ==
    {<<>>} \cup {<<row>> : row \in KeyRows}
           \cup {<<row_1, row_2>> : row_1 \in KeyRows, row_2 \in KeyRows}

EndpointFormatMaps ==
    {[p \in {"p1"} |-> {"openai:chat"}],
     [p \in {"p1"} |-> {"openai:chat", "claude:chat"}],
     [p \in {"p1"} |-> {"openai:chat"}] @@ [p \in {"p2"} |-> {"claude:chat"}],
     [p \in {"p1"} |-> {}] @@ [p \in {"p2"} |-> {"claude:chat"}]}

AvailArgs ==
    [key_rows : KeyRowLists,
     api_formats : {<<"openai:chat">>, <<"OPENAI:CHAT", "claude:chat">>},
     provider_to_endpoint_formats : EndpointFormatMaps]

AvailInit ==
    /\ v_args = [key_rows |-> <<>>, api_formats |-> <<"openai:chat">>,
                 provider_to_endpoint_formats |-> [p \in {"p1"} |-> {"openai:chat"}]]
    /\ v_result = {}

AvailInitArgs ==
    /\ v_args \in AvailArgs
    /\ v_result = {}

\* get_providers_with_active_keys(db, provider_ids, api_formats,
\* provider_to_endpoint_formats)
v_get_providers_with_active_keys ==
    /\ v_result = {}
    /\ v_result' = {[call |-> "get_providers_with_active_keys",
                     out |-> get_providers_with_active_keys(
                                 v_args.key_rows, v_args.api_formats,
                                 v_args.provider_to_endpoint_formats)]}
    /\ UNCHANGED v_args
    /\ UNCHANGED notAvail

\* get_provider_key_rules(db, provider_ids, api_formats,
\* provider_to_endpoint_formats)
v_get_provider_key_rules ==
    /\ v_result = {}
    /\ v_result' = {[call |-> "get_provider_key_rules",
                     out |-> get_provider_key_rules(
                                 v_args.key_rows, v_args.api_formats,
                                 v_args.provider_to_endpoint_formats)]}
    /\ UNCHANGED v_args
    /\ UNCHANGED notAvail

\* normalize_allowed_models(key.allowed_models, api_format) on one of the
\* rows.
v_normalize_allowed_models ==
    /\ v_result = {}
    /\ \E i \in DOMAIN v_args.key_rows, api_format \in KnownFormats :
        v_result' = {[call |-> "normalize_allowed_models",
                      row |-> i,
                      api_format |-> api_format,
                      out |-> normalize_allowed_models(
                                  v_args.key_rows[i].allowed_models, api_format)]}
    /\ UNCHANGED v_args
    /\ UNCHANGED notAvail

AvailNext ==
    \/ v_get_providers_with_active_keys
    \/ v_get_provider_key_rules
    \/ v_normalize_allowed_models

(***************************************************************************)
(* Specifications: one program runs, the others stay as constructed.       *)
(***************************************************************************)

LastInit == RestrictInit /\ MergeInit /\ AvailInit

LaterInit == CheckInit /\ GateInit /\ SortInit /\ LastInit

Init == OrchInit /\ EngInit /\ ExecInit /\ AdaptInit /\ TrimInit /\ LaterInit

SpecOrch == Init /\ [][OrchNext]_vars

SpecEngine == Init /\ [][EngNext]_vars

SpecExec == Init /\ [][ExecNext]_vars

\* The manager is called on a key taken at any point of one of its lives.
InitLived == OrchInit /\ EngInit /\ ExecInit /\ AdaptInitLived /\ TrimInit /\ LaterInit

SpecAdaptive == InitLived /\ [][AdaptNext]_vars

\* _trim_history is applied to a history.
InitHistories == OrchInit /\ EngInit /\ ExecInit /\ AdaptInit /\ TrimInitHistories /\ LaterInit

SpecTrim == InitHistories /\ [][TrimNext]_vars

SpecCheck == Init /\ [][CheckNext]_vars

\* is_format_compatible is applied to any arguments.
EarlierInit == OrchInit /\ EngInit /\ ExecInit /\ AdaptInit /\ TrimInit

InitGateArgs == EarlierInit /\ CheckInit /\ GateInitArgs /\ SortInit /\ LastInit

SpecGate == InitGateArgs /\ [][GateNext]_vars

\* The sorter is applied to any candidate list.
InitSortArgs == EarlierInit /\ CheckInit /\ GateInit /\ SortInitArgs /\ LastInit

SpecSort == InitSortArgs /\ [][SortNext]_vars

\* The restrictions of any ApiKey and User are merged.
InitRestrictArgs ==
    EarlierInit /\ CheckInit /\ GateInit /\ SortInit /\ RestrictInitArgs /\ MergeInit /\ AvailInit

SpecRestrict == InitRestrictArgs /\ [][RestrictNext]_vars

\* merge_allowed_models is applied to any two values.
InitMergeArgs ==
    EarlierInit /\ CheckInit /\ GateInit /\ SortInit /\ RestrictInit /\ MergeInitArgs /\ AvailInit

SpecMerge == InitMergeArgs /\ [][MergeNext]_vars

\* The availability queries are run on any key rows.
InitAvailArgs ==
    EarlierInit /\ CheckInit /\ GateInit /\ SortInit /\ RestrictInit /\ MergeInit /\ AvailInitArgs

SpecAvail == InitAvailArgs /\ [][AvailNext]_vars

\* One failover runs to its end, of the orchestrator or of the engine.  The
\* event loop resumes the coroutine whenever the call it awaits has
\* returned or raised, and every awaited call does one or the other: a step
\* that can be taken is taken.
FailoverNext ==
    \/ e_pc = "idle" /\ OrchNext
    \/ pc = "idle" /\ EngNext

SpecFailover == Init /\ [][FailoverNext]_vars /\ WF_vars(FailoverNext)

(***************************************************************************)
(* Properties of the orchestrator (SpecOrch).                              *)
(***************************************************************************)

TerminalStatuses == {"skipped", "failed", "success", "streaming", "unused"}

\* C1: once submit_with_failover has returned or raised, every
\* RequestCandidate record created for the request is skipped, failed,
\* success, streaming or unused; none is pending or still available.
C1_AllRecordsTerminal ==
    pc \in {"returned", "raised"} =>
        \A i \in DOMAIN candidate_records :
            candidate_records[i].status \in TerminalStatuses

\* C2: when the request succeeds exactly one record is success (or
\* streaming), every record before it is skipped or failed, and every
\* record after it is unused.
C2_OneSuccessRestUnused ==
    (pc = "returned" /\ candidate_records # <<>>) =>
        /\ Cardinality({i \in DOMAIN candidate_records :
                candidate_records[i].status \in {"success", "streaming"}}) = 1
        /\ \A i \in DOMAIN candidate_records :
            /\ i < outcome.candidate =>
                    candidate_records[i].status \in {"skipped", "failed"}
            /\ i > outcome.candidate => candidate_records[i].status = "unused"

\* C3: candidates are attempted one at a time and in list order: the
\* attempts are made at strictly increasing positions, at most one attempt
\* is in flight and it is the latest one, and the attempt that succeeded is
\* the last attempt made.
C3_SequentialAttempts ==
    /\ \A k \in 1..(Len(submitted) - 1) : submitted[k] < submitted[k + 1]
    /\ Cardinality(inflight) <= 1
    /\ inflight # {} => (submitted # <<>> /\ inflight = {Last(submitted)})
    /\ pc = "submitting" <=> inflight # {}
    /\ outcome.kind = "SubmitOutcome" =>
            (inflight = {} /\ Last(submitted) = outcome.candidate)

\* Two attempts were made, the second after the first had failed, and the
\* second succeeded.
C3_Witness ==
    /\ pc = "returned"
    /\ Len(submitted) = 2
    /\ outcome.candidate = submitted[2]

\* C4: when an attempt's error is classified as one that stops the failover,
\* nothing further is attempted: the call raises UpstreamClientRequestError
\* with the status of that attempt and the audit trail up to it, the failed
\* record is committed, and the attempts made are the eligible candidates
\* up to the failing one.
C4_StopOnClientError ==
    classified.stop =>
        /\ pc = "raised"
        /\ inflight = {}
        /\ outcome.kind = "UpstreamClientRequestError"
        /\ outcome.candidate = classified.candidate
        /\ outcome.last_status_code = Some(classified.status_code)
        /\ Last(submitted) = classified.candidate
        /\ Len(submitted) = eligible_count
        /\ Len(candidate_keys) = classified.candidate
        /\ Last(candidate_keys).attempt_status = "http_error"
        /\ Last(candidate_keys).status_code = Some(classified.status_code)
        /\ candidate_records # <<>> =>
            /\ committed = candidate_records
            /\ committed[classified.candidate].status = "failed"
            /\ committed[classified.candidate].status_code = Some(classified.status_code)

\* The failover stopped on a client error of the first candidate while
\* another candidate was still in the list, and the record was committed.
C4_Witness ==
    /\ classified.stop
    /\ classified.candidate < n_candidates
    /\ committed # <<>>
    /\ committed[classified.candidate].status = "failed"

\* C9: when the request is cancelled while an attempt is in flight, the
\* record of the current candidate has left pending for a terminal state
\* and that state is committed when the cancellation reaches the caller.
C9_CancelCommitsRecord ==
    (outcome.kind = "CancelledError" /\ candidate_records # <<>>) =>
        /\ candidate_records[outcome.candidate].status \in TerminalStatuses
        /\ committed = candidate_records

\* The entries of the audit trail whose attempt got a response.
ResponseEntries ==
    {k \in 1..Len(candidate_keys) :
        candidate_keys[k].attempt_status \in
            {"http_error", "invalid_json", "empty_task_id"}}

\* C11: an exhausted request fails in one of two distinguishable ways: when
\* no candidate was attempted (all were skipped) the reason is that no
\* candidate was eligible and there is no status code; when candidates were
\* attempted and all failed the reason is all_candidates_failed, the audit
\* trail covers every candidate, and the status code is that of the last
\* upstream response.
C11_ExhaustedOutcomes ==
    outcome.kind = "AllCandidatesFailedError" =>
        /\ pc = "raised"
        /\ Len(candidate_keys) = n_candidates
        /\ \A k \in 1..Len(candidate_keys) :
            candidate_keys[k].skipped <=> k \notin {submitted[j] : j \in 1..Len(submitted)}
        /\ \A k \in 1..Len(candidate_keys) : ~candidate_keys[k].selected
        /\ IF submitted = <<>>
              THEN /\ outcome.reason = (IF billing_require_rule
                                          THEN "no_candidate_with_billing_rule"
                                          ELSE "no_eligible_candidates")
                   /\ outcome.last_status_code = NoInt
              ELSE /\ outcome.reason = "all_candidates_failed"
                   /\ \A j \in 1..Len(submitted) :
                        candidate_keys[submitted[j]].attempt_status \in
                            {"exception", "http_error", "invalid_json", "empty_task_id"}
                   /\ IF ResponseEntries = {}
                         THEN outcome.last_status_code = NoInt
                         ELSE LET k == CHOOSE m \in ResponseEntries :
                                            \A o \in ResponseEntries : o <= m
                              IN  IF candidate_keys[k].attempt_status = "http_error"
                                    THEN outcome.last_status_code = candidate_keys[k].status_code
                                    ELSE \E c \in outcome.last_status_code : c < 400
        /\ candidate_records # <<>> => committed = candidate_records

\* Two candidates were attempted; the first answered 500, the second raised.
C11_Witness ==
    /\ outcome.kind = "AllCandidatesFailedError"
    /\ outcome.reason = "all_candidates_failed"
    /\ Len(submitted) = 2
    /\ outcome.last_status_code = Some(500)
    /\ candidate_keys[2].attempt_status = "exception"

(***************************************************************************)
(* Properties of the failover engine (SpecEngine).                         *)
(***************************************************************************)

\* The attempts made on candidate i.
AttemptsOn(i) == {k \in 1..Len(e_attempts) : e_attempts[k][1] = i}

\* The cap the retry policy puts on candidate i.
RetryCap(i) ==
    LET pmr == e_candidates[i].provider_max_retries
    IN  IF e_policy.mode = "DISABLED" THEN 1
        ELSE IF pmr = NoInt THEN e_policy.max_retries
        ELSE IF e_policy.max_retries < (CHOOSE n \in pmr : TRUE)
            THEN e_policy.max_retries
            ELSE CHOOSE n \in pmr : TRUE

\* C5: the attempts on one candidate never exceed the cap of the retry
\* policy (one under DISABLED, else max_retries capped by the provider's
\* max_retries); a CONTINUE verdict retries the same candidate with the
\* next retry index while retries remain and otherwise moves to the next
\* candidate.
C5_RetriesBounded ==
    /\ \A i \in 1..Len(e_candidates) :
        /\ Cardinality(AttemptsOn(i)) <= RetryCap(i)
        /\ \A k \in AttemptsOn(i) : e_attempts[k][2] < RetryCap(i)
    /\ (e_verdict.action = "CONTINUE" /\ e_pc = "loop") =>
        IF e_verdict.slot[2] + 1 < RetryCap(e_verdict.slot[1])
            THEN /\ e_policy.mode # "DISABLED"
                 /\ e_idx = e_verdict.slot[1]
                 /\ e_retry = e_verdict.slot[2] + 1
            ELSE /\ e_idx = e_verdict.slot[1] + 1
                 /\ e_retry = 0

\* Under ON_DEMAND with max_retries 2 the provider allows one attempt only:
\* the first candidate was attempted once, CONTINUE was answered, and the
\* engine is at the second candidate.
C5_Witness ==
    /\ e_policy = [mode |-> "ON_DEMAND", max_retries |-> 2]
    /\ Len(e_candidates) = 2
    /\ e_candidates[1].provider_max_retries = Some(1)
    /\ e_verdict.action = "CONTINUE"
    /\ e_verdict.slot = <<1, 0>>
    /\ e_pc = "loop"
    /\ e_idx = 2

\* C6: under PRE_EXPAND a success at slot (i, r) marks unused exactly the
\* pre-created records behind it, (i, r') with r' > r and (j, *) with j > i,
\* none of which was attempted or skipped, and commits them.
C6_UnusedAfterSuccess ==
    (e_policy.mode = "PRE_EXPAND" /\ e_result.success) =>
        LET i == e_result.candidate
            r == e_result.retry_index
        IN  /\ e_unused =
                {s \in (1..Len(e_candidates)) \X (0..MaxRetries) :
                    /\ s[2] < RetryCap(s[1])
                    /\ (s[1] = i /\ s[2] > r) \/ s[1] > i}
            /\ \A s \in e_unused :
                /\ e_records[s] = "unused"
                /\ e_committed[s] = "unused"
                /\ \A k \in 1..Len(e_attempts) : e_attempts[k] # s
                /\ ~e_candidates[s[1]].is_skipped \/ s[1] > i

\* Two candidates of two slots each; the first attempt succeeds and the
\* three slots behind it are unused.
C6_Witness ==
    /\ e_policy = [mode |-> "PRE_EXPAND", max_retries |-> 2]
    /\ e_result.success
    /\ e_result.candidate = 1
    /\ e_result.retry_index = 0
    /\ e_unused = {<<1, 1>>, <<2, 0>>, <<2, 1>>}

\* C7: a stream that ends or raises before its first chunk is a failed
\* attempt, never a stream handed back: the record is failed and the
\* classifier's verdict is applied (BREAK: next candidate, RAISE: the
\* failover stops with a failure).
C7_ProbeFailureFailsOver ==
    /\ e_result.kind = "stream" => e_upstream # <<>>
    /\ e_probe_failed # {} =>
        \A s \in e_probe_failed :
            /\ e_records[s] = "failed"
            /\ \E k \in 1..Len(e_attempts) : e_attempts[k] = s
    /\ e_verdict.error_type = "StreamProbeError" =>
        /\ e_records[e_verdict.slot] = "failed"
        /\ e_verdict.action = "BREAK" =>
            /\ e_idx = e_verdict.slot[1] + 1
            /\ e_retry = 0
            /\ e_pc = "loop" \/ (e_pc = "returned" /\ e_idx > Len(e_candidates))
        /\ e_verdict.action = "RAISE" =>
            /\ e_pc = "returned"
            /\ ~e_result.success
            /\ e_result.error_type = "StreamProbeError"
            /\ e_committed = e_records

\* The stream of the first candidate failed the probe and the request
\* succeeded on the second candidate.
C7_Witness ==
    /\ e_probe_failed = {<<1, 0>>}
    /\ e_records[<<1, 0>>] = "failed"
    /\ e_result.success
    /\ e_result.candidate = 2
    /\ e_records[<<2, 0>>] = "success"

StreamStates == {"streaming", "stream_completed", "stream_failed"}

\* C8: the iterator handed back after the probe yields the upstream chunks
\* as they are: what was read plus what is still to come is the upstream
\* sequence, and a stream read to its end, or to its error, has yielded all
\* of it.  Once a stream was handed back the attempt that produced it is
\* the last attempt of the request.
C8_StreamAsUpstream ==
    e_pc \in StreamStates =>
        /\ e_delivered \o e_iter.prefetched \o e_iter.rest = e_upstream
        /\ e_pc # "streaming" => e_delivered = e_upstream
        /\ e_upstream # <<>>
        /\ e_result.success /\ e_result.kind = "stream"
        /\ Last(e_attempts) = <<e_result.candidate, e_result.retry_index>>
        /\ e_result.attempt_count = Len(e_attempts)

\* A stream of two chunks was read to its error while a later candidate
\* was never attempted.
C8_Witness ==
    /\ e_pc = "stream_failed"
    /\ e_delivered = <<1, 2>>
    /\ e_result.candidate = 1
    /\ Len(e_candidates) = 2
    /\ ~e_candidates[2].is_skipped

(***************************************************************************)
(* Properties of the executor (SpecExec).                                  *)
(***************************************************************************)

\* The candidates of request r that were left behind without a call of
\* request_func.
PassedUncalled(r) ==
    {p \in 1..x_n[r] :
        /\ p \notin x_calls[r]
        /\ p < x_pos[r] \/ (p = x_pos[r] /\ x_pc[r] = "exhausted")}

WithinGuardLimit(r, n) ==
    \A l \in x_context[r].rpm_limit :
        IF x_cached[r] THEN n <= l
        ELSE n <= 1 \/ 100 * n <= l * (100 - Val(x_context[r].reservation_ratio))

LimitRange == MIN_RPM_LIMIT..MAX_RPM_LIMIT

\* The adjustment records of a history.
AdjustmentsOf(history) == SelectSeq(history, LAMBDA h : ~IsObservation(h))

\* The observations of a history.
ObservationsOf(history) == SelectSeq(history, IsObservation)

\* C13: on an adaptive key, whatever calls were made, learned_rpm_limit is
\* null or lies within [MIN_RPM_LIMIT, MAX_RPM_LIMIT], and every adjustment
\* the history records wrote a limit of that range.
C13_LearnedInRange ==
    a_key.rpm_limit = NoInt =>
        /\ a_key.learned_rpm_limit \subseteq LimitRange
        /\ \A i \in 1..Len(a_key.adjustment_history) :
                a_key.adjustment_history[i].new_limit \subseteq LimitRange

\* A 429 has just confirmed a limit that the lower end of the range holds up.
C13_Witness ==
    /\ a_steps > 0
    /\ a_last.op = "handle_429_error"
    /\ a_key.rpm_limit = NoInt
    /\ a_key.learned_rpm_limit = Some(MIN_RPM_LIMIT)
    /\ a_key.adjustment_history # <<>>
    /\ Last(a_key.adjustment_history).reason = "rpm_429"
    /\ Last(a_key.adjustment_history).new_limit = Some(MIN_RPM_LIMIT)
    /\ a_last.current_rpm # NoInt
    /\ (Val(a_last.current_rpm) * OBSERVATION_LIMIT_SAFETY_MARGIN) \div 100 < MIN_RPM_LIMIT

\* The limit a step wrote: learned_rpm_limit changed, and to a value.
LearnedWritten ==
    /\ a_key'.learned_rpm_limit # a_key.learned_rpm_limit
    /\ a_key'.learned_rpm_limit # NoInt

\* The step was a 429 of the RPM type whose evaluation of the observations
\* was confident, and the limit is the evaluated one.
ConfidentEvaluation ==
    /\ a_last'.op = "handle_429_error"
    /\ a_last'.limit_type = "rpm"
    /\ _evaluate_observations(a_key').confidence >= ENFORCEMENT_CONFIDENCE_THRESHOLD
    /\ a_key'.learned_rpm_limit = _evaluate_observations(a_key').limit

\* C14 as claimed: a call of handle_429_error or handle_success changes
\* learned_rpm_limit only when the evaluation of the observations, or the
\* confidence of the key at the call, reaches the enforcement threshold.
C14_OnlyWhenConfident ==
    [][LearnedWritten =>
            \/ ConfidentEvaluation
            \/ AtLeast(get_confidence(a_key, a_now), ENFORCEMENT_CONFIDENCE_THRESHOLD)]_vars

\* C14, amended: learned_rpm_limit is written by a 429 of the RPM type whose
\* evaluation is confident, by a success on a key whose decayed confidence
\* reaches the threshold (an increase), or by a 429 of unknown type, which
\* lowers a limit already learned to max(floor(0.95 * old), MIN_RPM_LIMIT)
\* whatever the confidence; a concurrent 429 never writes it, and only
\* reset_learning clears it.
C14_LearnedWrites ==
    [][/\ LearnedWritten =>
            \/ ConfidentEvaluation
            \/ /\ a_last'.op = "handle_success"
               /\ a_key.learned_rpm_limit # NoInt
               /\ AtLeast(get_confidence(a_key, a_now), ENFORCEMENT_CONFIDENCE_THRESHOLD)
               /\ Val(a_key'.learned_rpm_limit) > Val(a_key.learned_rpm_limit)
            \/ /\ a_last'.op = "handle_429_error"
               /\ a_last'.limit_type = "unknown"
               /\ a_key.learned_rpm_limit # NoInt
               /\ Val(a_key'.learned_rpm_limit) < Val(a_key.learned_rpm_limit)
               /\ Val(a_key'.learned_rpm_limit)
                    = Max((19 * Val(a_key.learned_rpm_limit)) \div 20, MIN_RPM_LIMIT)
       /\ (a_key'.learned_rpm_limit = NoInt /\ a_key.learned_rpm_limit # NoInt)
            => a_last'.op = "reset_learning"]_vars

\* A 429 of unknown type has just lowered the learned limit of a key whose
\* observations confirm nothing.
C14_Witness ==
    /\ a_steps > 0
    /\ a_last.op = "handle_429_error"
    /\ a_last.limit_type = "unknown"
    /\ a_key.adjustment_history # <<>>
    /\ Last(a_key.adjustment_history).reason = "unknown_429"
    /\ a_key.learned_rpm_limit = Last(a_key.adjustment_history).new_limit
    /\ Val(Last(a_key.adjustment_history).new_limit)
            < Val(Last(a_key.adjustment_history).old_limit)
    /\ _evaluate_observations(a_key).confidence < ENFORCEMENT_CONFIDENCE_THRESHOLD

\* The upstream limits of the header-bearing observations of a history, and
\* the local counts of its observations that have one.
HeaderValues(history) ==
    LET obs == SelectSeq(history, LAMBDA h : IsObservation(h) /\ Positive(h.upstream_limit))
    IN  [i \in 1..Len(obs) |-> Val(obs[i].upstream_limit)]

LocalValues(history) ==
    LET obs == SelectSeq(history, LAMBDA h : IsObservation(h) /\ Positive(h.current_rpm))
    IN  [i \in 1..Len(obs) |-> Val(obs[i].current_rpm)]

\* The last two header values lie within 20% of their median (a + b) / 2.
HeaderGroup(values) ==
    /\ Len(values) >= 2
    /\ LET a == values[Len(values) - 1]
           b == values[Len(values)]
       IN  5 * Abs(a - b) <= a + b

\* The middle one of three values.
Middle(x, y, z) == x + y + z - Max(x, Max(y, z)) - Min(x, Min(y, z))

\* The last three local counts lie within 20% of their median.
LocalGroup(values) ==
    /\ Len(values) >= 3
    /\ LET x == values[Len(values) - 2]
           y == values[Len(values) - 1]
           z == values[Len(values)]
       IN  \A v \in {x, y, z} : 5 * Abs(v - Middle(x, y, z)) <= Middle(x, y, z)

\* floor(median * margin) of the group that decides, margin in hundredths.
GroupLimit(history) ==
    LET hv == HeaderValues(history)
        lv == LocalValues(history)
    IN  IF HeaderGroup(hv)
            THEN (95 * (hv[Len(hv) - 1] + hv[Len(hv)])) \div 200
            ELSE (85 * Middle(lv[Len(lv) - 2], lv[Len(lv) - 1], lv[Len(lv)])) \div 100

\* C15: on an adaptive key without a learned limit, a 429 of the RPM type
\* records its observation; while the recorded observations hold neither
\* two agreeing header values nor three agreeing local counts the limit
\* stays null and get_effective_limit returns null, and the observation
\* that completes a group sets the limit to floor(median * margin), clamped
\* to the range.  A 429 of another type leaves the limit null.
C15_LearningMode ==
    [][(/\ a_last'.op = "handle_429_error"
        /\ a_key.rpm_limit = NoInt
        /\ a_key.learned_rpm_limit = NoInt)
       => IF a_last'.limit_type = "rpm"
          THEN /\ a_key'.adjustment_history # <<>>
               /\ \E i \in 1..Len(a_key'.adjustment_history) :
                    a_key'.adjustment_history[i]
                        = Observation(a_now, a_last'.current_rpm, a_last'.limit_value)
               /\ Len(ObservationsOf(a_key'.adjustment_history))
                    = Min(Len(a_key.adjustment_history) + 1, MAX_HISTORY_RECORDS)
               /\ IF \/ HeaderGroup(HeaderValues(a_key'.adjustment_history))
                     \/ LocalGroup(LocalValues(a_key'.adjustment_history))
                  THEN a_key'.learned_rpm_limit
                        = Some(Min(Max(GroupLimit(a_key'.adjustment_history),
                                       MIN_RPM_LIMIT), MAX_RPM_LIMIT))
                  ELSE /\ a_key'.learned_rpm_limit = NoInt
                       /\ get_effective_limit(a_key', a_now') = NoInt
          ELSE /\ a_key'.learned_rpm_limit = NoInt
               /\ a_key'.adjustment_history = a_key.adjustment_history]_vars

\* A 429 has just been observed on a key that stays in learning mode with
\* two header values that do not agree.
C15_Witness ==
    /\ a_steps > 0
    /\ a_last.op = "handle_429_error"
    /\ a_last.limit_type = "rpm"
    /\ a_key.rpm_limit = NoInt
    /\ a_key.learned_rpm_limit = NoInt
    /\ Len(HeaderValues(a_key.adjustment_history)) >= 2
    /\ ~HeaderGroup(HeaderValues(a_key.adjustment_history))
    /\ get_effective_limit(a_key, a_now) = NoInt

\* C16: the confidence of an adaptive key lies within [0, 1] and does not
\* increase in a step that records no 429 observation: a wait, a success, a
\* limit increase, a reset, or a 429 of the concurrent or unknown type.
C16_ConfidenceNeverIncreases ==
    [][(a_key.rpm_limit = NoInt /\ a_key'.rpm_limit = NoInt)
       => /\ AtLeast(get_confidence(a_key', a_now'), 0)
          /\ ~FloatLess(One, get_confidence(a_key', a_now'))
          /\ ~(a_last'.op = "handle_429_error" /\ a_last'.limit_type = "rpm")
                => ~FloatLess(get_confidence(a_key, a_now),
                              get_confidence(a_key', a_now'))]_vars

\* Minutes after the last 429 within which a limit can be in force: the
\* highest base confidence, 0.8, takes 30 minutes to decay to the threshold.
EnforcedMinutes == 30

\* C17: on an adaptive key get_effective_limit returns learned_rpm_limit
\* exactly when it is set and the decayed confidence reaches the threshold,
\* and null otherwise; waiting leaves learned_rpm_limit as it is, and once
\* more than 30 minutes have passed since the last 429 the limit, still
\* stored, is not in force.
C17_EffectiveLimit ==
    [][a_key'.rpm_limit = NoInt
       => /\ get_effective_limit(a_key', a_now')
                = IF /\ a_key'.learned_rpm_limit # NoInt
                     /\ AtLeast(get_confidence(a_key', a_now'), ENFORCEMENT_CONFIDENCE_THRESHOLD)
                  THEN a_key'.learned_rpm_limit
                  ELSE NoInt
          /\ a_last'.op = "wait" => a_key'.learned_rpm_limit = a_key.learned_rpm_limit
          /\ (/\ a_key'.last_429_at # NoInt
              /\ a_now' - Val(a_key'.last_429_at) > EnforcedMinutes)
             => get_effective_limit(a_key', a_now') = NoInt]_vars

\* Time has passed and a limit that was in force is stored and not in force.
C17_Witness ==
    /\ a_steps > 0
    /\ a_last.op = "wait"
    /\ a_key.rpm_limit = NoInt
    /\ a_key.learned_rpm_limit # NoInt
    /\ a_key.last_429_at # NoInt
    /\ AtLeast(get_confidence(a_key, Val(a_key.last_429_at)), ENFORCEMENT_CONFIDENCE_THRESHOLD)
    /\ ~AtLeast(get_confidence(a_key, a_now), ENFORCEMENT_CONFIDENCE_THRESHOLD)
    /\ get_effective_limit(a_key, a_now) = NoInt

\* C18: on a key with a fixed rpm_limit get_effective_limit returns that
\* value whatever was learned, and neither handle_429_error nor
\* handle_success changes any field of the key.
C18_FixedKey ==
    [][/\ a_key'.rpm_limit # NoInt
            => get_effective_limit(a_key', a_now') = a_key'.rpm_limit
       /\ (/\ a_key.rpm_limit # NoInt
           /\ a_last'.op \in {"handle_429_error", "handle_success"})
            => a_key' = a_key]_vars

\* A 429 has just been handled on a fixed key that carries another learned
\* limit.
C18_Witness ==
    /\ a_steps > 0
    /\ a_last.op = "handle_429_error"
    /\ a_last.limit_type = "rpm"
    /\ a_key.rpm_limit # NoInt
    /\ a_key.learned_rpm_limit # NoInt
    /\ a_key.learned_rpm_limit # a_key.rpm_limit
    /\ get_effective_limit(a_key, a_now) = a_key.rpm_limit

\* C19: whatever calls were made, adjustment_history holds at most 20
\* entries and utilization_samples at most 15, none of them 300 seconds or
\* more older than the sample written last.
C19_BoundedState ==
    /\ Len(a_key.adjustment_history) <= MAX_HISTORY_RECORDS
    /\ Len(a_key.utilization_samples) <= UTILIZATION_WINDOW_SIZE
    /\ \A i \in 1..Len(a_key.utilization_samples) :
            Last(a_key.utilization_samples).ts - a_key.utilization_samples[i].ts
                < UTILIZATION_WINDOW_MINUTES

\* A success has just been sampled on a key whose window and history are
\* both full, more 429s having been recorded than the history holds.
C19_Witness ==
    /\ a_steps > 0
    /\ a_last.op = "handle_success"
    /\ Len(a_key.utilization_samples) = UTILIZATION_WINDOW_SIZE
    /\ Len(a_key.adjustment_history) = MAX_HISTORY_RECORDS
    /\ a_key.rpm_429_count > MAX_HISTORY_RECORDS

(***************************************************************************)
(* Properties of _trim_history (SpecTrim).                                 *)
(***************************************************************************)

\* The entries of s from position n + 1 on.
From(s, n) == [i \in 1..(Len(s) - n) |-> s[n + i]]

\* C20: a history of at most 20 entries is returned as it is; of a longer
\* one the oldest adjustments are dropped first and observations, oldest
\* first, only when no adjustment is left; 20 entries are kept, in
\* timestamp order.
C20_TrimOrder ==
    \A trimmed \in t_trimmed :
        LET adjustments == AdjustmentsOf(t_history)
            observations == ObservationsOf(t_history)
            overflow == Len(t_history) - MAX_HISTORY_RECORDS
        IN  IF overflow <= 0 THEN trimmed = t_history
            ELSE /\ Len(trimmed) = MAX_HISTORY_RECORDS
                 /\ \A i \in 1..(Len(trimmed) - 1) :
                        trimmed[i].timestamp <= trimmed[i + 1].timestamp
                 /\ IF overflow <= Len(adjustments)
                    THEN /\ AdjustmentsOf(trimmed) = From(adjustments, overflow)
                         /\ ObservationsOf(trimmed) = observations
                    ELSE /\ AdjustmentsOf(trimmed) = <<>>
                         /\ ObservationsOf(trimmed)
                                = From(observations, overflow - Len(adjustments))

\* A history too long by two has been trimmed: its oldest entry, an
\* observation, is kept and the two oldest adjustments behind it are gone.
C20_Witness ==
    /\ t_trimmed # {}
    /\ Len(t_history) = MAX_HISTORY_RECORDS + 2
    /\ IsObservation(t_history[1])
    /\ ~IsObservation(t_history[2])
    /\ \A trimmed \in t_trimmed :
            /\ trimmed[1] = t_history[1]
            /\ Len(AdjustmentsOf(trimmed)) = Len(AdjustmentsOf(t_history)) - 2
            /\ Len(ObservationsOf(trimmed)) = Len(ObservationsOf(t_history))

(***************************************************************************)
(* Claims on the concurrency checker (SpecCheck).                          *)
(***************************************************************************)

CheckedWithLimit ==
    /\ k_last.call = "check_available"
    /\ k_last.effective_key_limit # NoInt

\* C21: check_available admits by quota.  With an effective limit L and
\* a counter at c, a cached caller is admitted iff c < L and a new caller
\* iff c < floor(L * (1 - reservation_ratio)), one slot being always
\* allowed; without an effective limit every caller is admitted.  The
\* count c is the one read from the manager; a checker that has no
\* manager has no count to read and admits.
C21_AdmittedByQuota ==
    k_last.call = "check_available" =>
        LET c == k_last.result.snapshot.key_current
            ok == k_last.result.can_use
        IN  /\ k_last.manager => c = k_last.key_count
            /\ IF ~k_last.manager \/ k_last.effective_key_limit = NoInt
                   THEN ok
               ELSE IF k_last.is_cached_user
                   THEN ok <=> c < Val(k_last.effective_key_limit)
               ELSE ok <=> \/ c < 1
                           \/ 100 * (c + 1) <= Val(k_last.effective_key_limit)
                                               * (100 - k_last.reservation_ratio)

\* C22: the quota of new callers is at least 1 whenever the effective
\* limit is at least 1, for every reservation ratio, both in
\* check_available (where a new caller is therefore admitted on an unused
\* key) and in the rpm_available_for_new of the executor.
C22_NewCallerQuota ==
    (CheckedWithLimit /\ k_last.manager /\ ~k_last.is_cached_user) =>
        /\ Val(k_last.result.snapshot.key_limit) >= 1
        /\ k_last.key_count = 0 => k_last.result.can_use
        /\ Val(rpm_available_for_new(k_last.effective_key_limit, FALSE,
                                     k_last.reservation_ratio)) >= 1

\* The share the reservation leaves of a limit of one or more is less
\* than one slot, and the quota reported is one.
C22_Witness ==
    /\ CheckedWithLimit
    /\ k_last.manager
    /\ ~k_last.is_cached_user
    /\ Val(k_last.effective_key_limit) >= 1
    /\ Val(k_last.effective_key_limit) * (100 - k_last.reservation_ratio) < 100
    /\ k_last.result.snapshot.key_limit = Some(1)
    /\ k_last.key_count = 0
    /\ k_last.result.can_use

(***************************************************************************)
(* Claims on the format gate (SpecGate).                                   *)
(***************************************************************************)

Returned == CHOOSE r \in g_result : TRUE

SameSignature == Upper[g_args.client_format] = Upper[g_args.endpoint_api_format]

SameDataFormat ==
    data_format_id[Upper[g_args.client_format]]
        = data_format_id[Upper[g_args.endpoint_api_format]]

NeedsConversion == ~SameSignature /\ ~SameDataFormat

\* The keys of the endpoint configuration, as the claims read them.
ConfigIsDict == g_args.config.kind = "dict"

Enabled == ConfigIsDict /\ g_args.config.enabled = {TRUE}

Lists(formats) ==
    \E l \in formats : \E i \in 1..Len(l) :
        Upper[l[i]] = Upper[g_args.client_format]

Rejected == ConfigIsDict /\ Lists(g_args.config.reject_formats)

NotAccepted ==
    /\ ConfigIsDict
    /\ g_args.config.accept_formats \notin {{}, {<<>>}}
    /\ ~Lists(g_args.config.accept_formats)

NoStreamConversion ==
    ConfigIsDict /\ g_args.is_stream /\ g_args.config.stream_conversion = {FALSE}

EndpointReasons ==
    {"endpoint_not_configured", "endpoint_config_invalid", "endpoint_not_enabled",
     "client_format_rejected", "client_format_not_accepted",
     "stream_conversion_unsupported"}

\* C23: passthrough law.  When the two signatures are equal without
\* regard to case, or share a data_format_id, is_format_compatible returns
\* (true, false, none) whatever the endpoint configuration, is_stream,
\* effective_conversion_enabled and skip_endpoint_check are, and the
\* converter registry is not consulted.
C23_Passthrough ==
    (g_result # {} /\ (SameSignature \/ SameDataFormat)) =>
        /\ Returned.is_compatible
        /\ ~Returned.needs_conversion
        /\ Returned.skip_reason = None
        /\ ~Returned.registry_consulted

\* Two different signatures of one data format pass an endpoint that has
\* no configuration, with the global switch off and no check skipped.
C23_Witness ==
    /\ g_result # {}
    /\ ~SameSignature
    /\ SameDataFormat
    /\ ~g_args.skip_endpoint_check
    /\ ~g_args.effective_conversion_enabled
    /\ g_args.config = NoConfig
    /\ Returned.is_compatible

\* C24: decision tree of a pair that needs conversion, first match
\* winning.  Unless skip_endpoint_check, the call denies on a null
\* configuration, then on one that is not a dict, then on enabled not
\* true, then on a client format listed in reject_formats, then on a
\* non-empty accept_formats without the client format, then on a stream
\* with stream_conversion false; in every case it then denies when
\* can_convert_full is false, and returns (true, true, none) otherwise.
\* A denial is (false, false, reason) with a reason, and
\* effective_conversion_enabled changes nothing.
C24_DecisionTree ==
    (g_result # {} /\ NeedsConversion) =>
        LET check == ~g_args.skip_endpoint_check
            reason == Returned.skip_reason
            d1 == check /\ g_args.config.kind = "none"
            d2 == check /\ ~d1 /\ ~ConfigIsDict
            d3 == check /\ ~d1 /\ ~d2 /\ ~Enabled
            d4 == check /\ ~d1 /\ ~d2 /\ ~d3 /\ Rejected
            d5 == check /\ ~d1 /\ ~d2 /\ ~d3 /\ ~d4 /\ NotAccepted
            d6 == check /\ ~d1 /\ ~d2 /\ ~d3 /\ ~d4 /\ ~d5 /\ NoStreamConversion
            passed == ~(d1 \/ d2 \/ d3 \/ d4 \/ d5 \/ d6)
        IN  /\ d1 => reason = "endpoint_not_configured"
            /\ d2 => reason = "endpoint_config_invalid"
            /\ d3 => reason = "endpoint_not_enabled"
            /\ d4 => reason = "client_format_rejected"
            /\ d5 => reason = "client_format_not_accepted"
            /\ d6 => reason = "stream_conversion_unsupported"
            /\ (passed /\ ~g_args.can_convert_full) => reason = "no_full_converter"
            /\ (passed /\ g_args.can_convert_full) =>
                    /\ Returned.is_compatible
                    /\ Returned.needs_conversion
                    /\ reason = None
            /\ ~passed => ~Returned.registry_consulted
            /\ reason # None <=> ~Returned.is_compatible
            /\ reason # None => ~Returned.needs_conversion
            /\ Returned = is_format_compatible(
                              g_args.client_format, g_args.endpoint_api_format,
                              g_args.config, g_args.is_stream,
                              ~g_args.effective_conversion_enabled,
                              g_args.can_convert_full, g_args.skip_endpoint_check)

\* With the global switch off, an enabled endpoint that both rejects the
\* client format and accepts only another one denies for the rejection.
C24_Witness ==
    /\ g_result # {}
    /\ NeedsConversion
    /\ ~g_args.skip_endpoint_check
    /\ ~g_args.effective_conversion_enabled
    /\ Enabled
    /\ Rejected
    /\ NotAccepted
    /\ Returned.skip_reason = "client_format_rejected"

\* C25: three-layer priority as the module docstring has it.  With the
\* global switch on (effective_conversion_enabled true) a request that
\* needs conversion is force-allowed and the endpoint checks are skipped:
\* no denial comes from the endpoint configuration.
C25_GlobalOnForcesAllow ==
    (g_result # {} /\ NeedsConversion /\ g_args.effective_conversion_enabled) =>
        Returned.skip_reason \notin EndpointReasons

(***************************************************************************)
(* Claims on the candidate sorter (SpecSort).                              *)
(***************************************************************************)

Sorted == (CHOOSE r \in s_result : TRUE).out

Reordered ==
    s_result # {} /\ (CHOOSE r \in s_result : TRUE).call = "reorder_candidates"

PrioritySorted ==
    s_result # {}
    /\ (CHOOSE r \in s_result : TRUE).call = "_apply_priority_mode_sort"

\* reorder_candidates asked the affinity manager.
LookedUp ==
    /\ Reordered
    /\ s_args.scheduling_mode = "cache_affinity"
    /\ s_args.affinity_key # None
    /\ s_args.candidates # <<>>

\* The positions of the given list the affinity found points at.
Targets ==
    {i \in 1..Len(s_args.candidates) :
        /\ s_args.candidates[i].provider_id = s_args.affinity.provider_id
        /\ s_args.candidates[i].endpoint_id = s_args.affinity.endpoint_id
        /\ s_args.candidates[i].key_id = s_args.affinity.key_id}

Target == s_args.candidates[CHOOSE i \in Targets : TRUE]

\* Demotion and priority as the claims state them.
Demoted(c) ==
    /\ c.needs_conversion
    /\ ~s_args.global_keep_priority
    /\ ~c.keep_priority_on_conversion

Primary(c) ==
    IF s_args.priority_mode = "provider" THEN c.provider_priority
    ELSE c.global_priority

\* a has the higher priority by the primary key: the larger
\* provider_priority, the smaller global_priority.
Outranks(a, b) ==
    IF s_args.priority_mode = "provider" THEN Primary(a) > Primary(b)
    ELSE Primary(a) < Primary(b)

Better(a, b) ==
    \/ ~Demoted(a) /\ Demoted(b)
    \/ /\ Demoted(a) = Demoted(b)
       /\ \/ Outranks(a, b)
          \/ Primary(a) = Primary(b) /\ a.internal_priority > b.internal_priority

InPriorityOrder(l) == \A i, j \in 1..Len(l) : i < j => ~Better(l[j], l[i])

Elements(l) == {l[i] : i \in 1..Len(l)}

CachedPositions == {i \in 1..Len(Sorted) : Sorted[i].is_cached}

\* C26: a healthy affinity target is promoted to the front.  When the
\* affinity found matches a candidate of the list that is not skipped,
\* reorder_candidates returns it at index 0 with is_cached true, whatever
\* its priority and its conversion group; no other candidate is marked,
\* and the others follow in their priority order.
C26_HealthyTargetFirst ==
    (LookedUp /\ Targets # {} /\ ~Target.is_skipped) =>
        /\ Len(Sorted) = Len(s_args.candidates)
        /\ Sorted[1] = [Target EXCEPT !.is_cached = TRUE]
        /\ CachedPositions = {1}
        /\ Elements(Tail(Sorted)) = Elements(s_args.candidates) \ {Target}
        /\ InPriorityOrder(Tail(Sorted))

\* A healthy target of the demoted group leads a candidate of the kept one.
C26_Witness ==
    /\ LookedUp
    /\ Targets # {}
    /\ ~Target.is_skipped
    /\ Demoted(Target)
    /\ Len(Sorted) >= 3
    /\ Sorted[1].key_id = Target.key_id
    /\ ~Demoted(Sorted[2])
    /\ Outranks(Sorted[2], Target)

\* C27: a skipped affinity target is promoted within its group only.  It
\* is marked is_cached and placed at the front of its own conversion
\* group: behind every candidate of a higher group, ahead of every other
\* candidate of its group; no other candidate is marked.
C27_SkippedTargetInGroup ==
    (LookedUp /\ Targets # {} /\ Target.is_skipped) =>
        /\ Len(Sorted) = Len(s_args.candidates)
        /\ \E p \in 1..Len(Sorted) :
            /\ Sorted[p] = [Target EXCEPT !.is_cached = TRUE]
            /\ CachedPositions = {p}
            /\ \A j \in 1..(p - 1) : ~Demoted(Sorted[j]) /\ Demoted(Target)
            /\ \A j \in (p + 1)..Len(Sorted) : Demoted(Target) => Demoted(Sorted[j])
        /\ Elements(Sorted) \ {[Target EXCEPT !.is_cached = TRUE]}
                = Elements(s_args.candidates) \ {Target}

\* A skipped target of the demoted group stays behind a kept candidate and
\* leads a demoted one of better priority.
C27_Witness ==
    /\ LookedUp
    /\ Targets # {}
    /\ Target.is_skipped
    /\ Len(Sorted) = 3
    /\ ~Demoted(Sorted[1])
    /\ Sorted[2].key_id = Target.key_id
    /\ Sorted[2].is_cached
    /\ Demoted(Sorted[3])
    /\ Outranks(Sorted[3], Sorted[2])

\* C28: conversion demotion.  A candidate is demoted iff it needs
\* conversion while the global keep_priority_on_conversion flag and the
\* flag of its provider are both false.  In the priority sort, in both
\* priority modes, every candidate that is not demoted precedes every
\* demoted one whatever their priorities; with the global flag true the
\* order is by priority alone.
C28_Demotion ==
    PrioritySorted =>
        /\ Elements(Sorted) = Elements(s_args.candidates)
        /\ \A i, j \in 1..Len(Sorted) :
                (Demoted(Sorted[i]) /\ ~Demoted(Sorted[j])) => j < i
        /\ s_args.global_keep_priority =>
                \A i, j \in 1..Len(Sorted) :
                    Outranks(Sorted[i], Sorted[j]) => i < j

\* A candidate that converts at a provider keeping its priority leads an
\* exact one, and a demoted one of better priority than both comes last.
C28_Witness ==
    /\ PrioritySorted
    /\ Len(Sorted) = 3
    /\ Sorted[1].needs_conversion
    /\ Sorted[1].keep_priority_on_conversion
    /\ ~Sorted[2].needs_conversion
    /\ Demoted(Sorted[3])
    /\ Outranks(Sorted[3], Sorted[1])

\* The two candidates of one conversion group the direction is read on.
SameGroupPairs ==
    {p \in (1..Len(Sorted)) \X (1..Len(Sorted)) :
        /\ p[1] < p[2]
        /\ Demoted(Sorted[p[1]]) = Demoted(Sorted[p[2]])}

FixedOrder == s_result # {} /\ s_args.scheduling_mode = "fixed_order"

\* C29, as claimed: under fixed_order, within one conversion group the
\* candidates are ordered by the descending value of the primary key of
\* the priority mode: the larger global_priority_by_format[client_format]
\* (global_key mode) or provider_priority (provider mode) comes first.
C29_LargerFirst ==
    FixedOrder =>
        \A p \in SameGroupPairs : Primary(Sorted[p[1]]) >= Primary(Sorted[p[2]])

\* C29, amended: under fixed_order, within one conversion group the
\* candidates are ordered by the primary key of the priority mode, in
\* global_key mode ascending, the smaller
\* global_priority_by_format[client_format] first, and in provider mode
\* descending, the larger provider_priority first.
C29_DirectionByMode ==
    FixedOrder =>
        \A p \in SameGroupPairs :
            IF s_args.priority_mode = "global_key"
                THEN Sorted[p[1]].global_priority <= Sorted[p[2]].global_priority
                ELSE Sorted[p[1]].provider_priority >= Sorted[p[2]].provider_priority

\* In global_key mode two candidates of one group given larger
\* global_priority first come out smaller global_priority first.
C29_Witness ==
    /\ FixedOrder
    /\ s_args.priority_mode = "global_key"
    /\ Len(Sorted) = 2
    /\ Demoted(Sorted[1]) = Demoted(Sorted[2])
    /\ Sorted[1].global_priority < Sorted[2].global_priority
    /\ s_args.candidates[1].key_id = Sorted[2].key_id

\* C30: an affinity whose target is not in the candidate list is ignored.
\* The result is the given candidates in priority order: none is added
\* for the target and none has is_cached true.
C30_AbsentTargetIgnored ==
    (Reordered /\ s_args.affinity # NoAffinity /\ Targets = {}) =>
        /\ Len(Sorted) = Len(s_args.candidates)
        /\ Elements(Sorted) = Elements(s_args.candidates)
        /\ CachedPositions = {}
        /\ InPriorityOrder(Sorted)

\* The affinity names a key of the list behind another endpoint, and the
\* candidate of that key stays where its priority puts it.
C30_Witness ==
    /\ LookedUp
    /\ s_args.affinity # NoAffinity
    /\ Targets = {}
    /\ \E i \in 2..Len(Sorted) : Sorted[i].key_id = s_args.affinity.key_id

\* C40: cached callers are never worse off than new callers.  For every
\* effective limit (0 included), reservation ratio and count, when
\* check_available admits a new caller it also admits a cached caller in
\* the same state.
C40_CachedNeverWorse ==
    (CheckedWithLimit /\ k_last.manager /\ ~k_last.is_cached_user
        /\ k_last.result.can_use) =>
        check_available(k_last.manager, k_last.key_count,
                        k_last.effective_key_limit, TRUE,
                        k_last.reservation_ratio).can_use

(***************************************************************************)
(* Additive increase of the adaptive RPM manager (SpecAdaptive).           *)
(***************************************************************************)

\* The step is a call of handle_success.
SuccessStep == a_last'.op = "handle_success" /\ a_steps' = a_steps + 1

\* What an increase writes is as it was before the step.
IncreaseFieldsUnchanged ==
    /\ a_key'.learned_rpm_limit = a_key.learned_rpm_limit
    /\ a_key'.adjustment_history = a_key.adjustment_history
    /\ a_key'.last_probe_increase_at = a_key.last_probe_increase_at

\* C37: a call of handle_success made while less than
\* COOLDOWN_AFTER_429_MINUTES have passed since last_429_at, or while the
\* effective limit of the key is null, or while its confidence is below
\* ENFORCEMENT_CONFIDENCE_THRESHOLD, leaves learned_rpm_limit,
\* adjustment_history and last_probe_increase_at as they were.
C37_NoIncreaseInCooldown ==
    [][(/\ SuccessStep
        /\ \/ _is_in_cooldown(a_key, a_now)
           \/ get_effective_limit(a_key, a_now) = NoInt
           \/ ~AtLeast(get_confidence(a_key, a_now), ENFORCEMENT_CONFIDENCE_THRESHOLD))
        => IncreaseFieldsUnchanged]_vars

\* A success has just been handled on a confident adaptive key in its
\* cooldown, whose window is full of busy samples and whose limit is below
\* the known boundary: only the cooldown stood against an increase.
C37_Witness ==
    /\ a_steps > 0
    /\ a_last.op = "handle_success"
    /\ a_key.rpm_limit = NoInt
    /\ a_key.learned_rpm_limit # NoInt
    /\ AtLeast(get_confidence(a_key, a_now), ENFORCEMENT_CONFIDENCE_THRESHOLD)
    /\ _is_in_cooldown(a_key, a_now)
    /\ Len(a_key.utilization_samples) >= MIN_SAMPLES_FOR_DECISION
    /\ \A i \in 1..Len(a_key.utilization_samples) :
            a_key.utilization_samples[i].util >= UTILIZATION_THRESHOLD
    /\ Val(a_key.learned_rpm_limit) < MAX_RPM_LIMIT
    /\ Positive(a_key.last_rpm_peak)
        => Val(a_key.learned_rpm_limit) < Val(a_key.last_rpm_peak)

\* The bound of a high-utilization increase: the known boundary, if the key
\* has one, and MAX_RPM_LIMIT.
IncreaseCeiling(key) ==
    IF Positive(key.last_rpm_peak) THEN Min(Val(key.last_rpm_peak), MAX_RPM_LIMIT)
    ELSE MAX_RPM_LIMIT

\* C38: a call of handle_success never lowers learned_rpm_limit and never
\* sets one on a key that has none.  When it raises the limit it records the
\* adjustment: one of reason high_utilization raises it by at most
\* INCREASE_STEP and not above min(last_rpm_peak, MAX_RPM_LIMIT); one of
\* reason probe_increase raises it by exactly 1 and not above MAX_RPM_LIMIT.
\* When the limit is not raised, no adjustment is recorded and
\* last_probe_increase_at is as it was.
C38_IncreaseStep ==
    [][SuccessStep =>
        LET old == a_key.learned_rpm_limit
            new == a_key'.learned_rpm_limit
        IN  IF new = old THEN IncreaseFieldsUnchanged
            ELSE /\ old # NoInt
                 /\ new # NoInt
                 /\ Val(new) > Val(old)
                 /\ a_key'.adjustment_history # <<>>
                 /\ LET record == Last(a_key'.adjustment_history)
                    IN  /\ record.old_limit = old
                        /\ record.new_limit = new
                        /\ \/ /\ record.reason = "high_utilization"
                              /\ Val(new) - Val(old) <= INCREASE_STEP
                              /\ Val(new) <= IncreaseCeiling(a_key)
                              /\ a_key'.last_probe_increase_at = a_key.last_probe_increase_at
                           \/ /\ record.reason = "probe_increase"
                              /\ Val(new) = Val(old) + 1
                              /\ Val(new) <= MAX_RPM_LIMIT
                              /\ a_key'.last_probe_increase_at = Some(a_now)]_vars

\* A busy window has just raised the limit, and by less than INCREASE_STEP:
\* the known boundary stopped it.
C38_Witness ==
    /\ a_steps > 0
    /\ a_last.op = "handle_success"
    /\ a_key.adjustment_history # <<>>
    /\ Last(a_key.adjustment_history).reason = "high_utilization"
    /\ Last(a_key.adjustment_history).new_limit = a_key.learned_rpm_limit
    /\ a_key.learned_rpm_limit = a_key.last_rpm_peak
    /\ Val(a_key.learned_rpm_limit) - Val(Last(a_key.adjustment_history).old_limit) < INCREASE_STEP
    /\ a_key.utilization_samples = <<>>

(***************************************************************************)
(* Pre-flight filters, task ids and HTTP errors of the orchestrator        *)
(* (SpecOrch).                                                             *)
(***************************************************************************)

\* The positions submit_func was awaited for.
Submitted == {submitted[j] : j \in 1..Len(submitted)}

\* The candidate fails the conversion filter or the auth_type filter.
FailsFilter(cand) ==
    \/ ~allow_format_conversion /\ cand.needs_conversion
    \/ ~supported_auth_types.is_none /\ cand.auth_type \notin supported_auth_types.types

\* The reason a candidate that the scheduler marked, or that fails the
\* conversion or auth_type filter, is skipped for.
ExpectedSkipReason(cand) ==
    IF cand.is_skipped
        THEN (IF cand.skip_reason = None THEN "skipped" ELSE cand.skip_reason)
    ELSE IF ~allow_format_conversion /\ cand.needs_conversion
        THEN "format_conversion_not_supported"
    ELSE "unsupported_auth_type:" \o cand.auth_type

\* The candidates read so far that are pre-skipped, as far as the candidate
\* itself tells.
PreSkipped == {k \in 1..Len(candidates) : candidates[k].is_skipped \/ FailsFilter(candidates[k])}

\* C34: submit_func is not awaited for a candidate that the scheduler marked
\* is_skipped, that needs a conversion the call does not allow, or whose
\* auth_type the call does not support, nor for one whose required billing
\* rule is missing; the iteration records the specific reason in the audit
\* entry and in the record, which goes from its initial status straight to
\* skipped, never through pending, and the loop moves to the next candidate.
C34_SkippedNeverAttempted ==
    /\ [](/\ \A k \in PreSkipped :
                /\ k \notin Submitted
                /\ candidate_keys[k].skipped
                /\ candidate_keys[k].skip_reason = ExpectedSkipReason(candidates[k])
                /\ candidate_keys[k].attempt_status = None
                /\ k \in DOMAIN candidate_records =>
                    /\ candidate_records[k].status = "skipped"
                    /\ candidate_records[k].skip_reason = ExpectedSkipReason(candidates[k])
          /\ (pc = "submitting" /\ billing_require_rule) => rule_lookup
          /\ \A k \in 1..Len(candidate_keys) :
                candidate_keys[k].skip_reason = "billing_rule_missing" =>
                    /\ billing_require_rule
                    /\ k \notin PreSkipped
                    /\ k \notin Submitted
                    /\ k \in DOMAIN candidate_records =>
                        /\ candidate_records[k].status = "skipped"
                        /\ candidate_records[k].skip_reason = "billing_rule_missing")
    /\ [][\A k \in DOMAIN candidate_records :
            (candidate_records'[k].status = "skipped" /\ candidate_records[k].status # "skipped")
                => /\ candidate_records[k].status = "available"
                   /\ k = idx
                   /\ idx' = idx + 1
                   /\ pc' = "loop"
                   /\ submitted' = submitted]_vars

\* The first candidate carried an auth_type the call does not support and
\* nothing else against it: it was skipped with that reason and the second
\* candidate is being attempted.
C34_Witness ==
    /\ pc = "submitting"
    /\ Len(candidates) = 2
    /\ ~candidates[1].is_skipped
    /\ ~candidates[1].needs_conversion
    /\ ~supported_auth_types.is_none
    /\ candidates[1].auth_type \notin supported_auth_types.types
    /\ candidate_records # <<>>
    /\ candidate_records[1].status = "skipped"
    /\ candidate_records[1].skip_reason = "unsupported_auth_type:oauth"
    /\ submitted = <<2>>

\* The step on which the attempt in flight got a response.
ResponseStep == pc = "submitting" /\ last_response' # NoResponse

\* The response carries a task id: the body parsed and the extractor found a
\* non-empty id in it.
HasTaskId(response) == response.json # "invalid" /\ response.task_id # ""

\* The attempts that ended without a task.
FailedAttempts == {"exception", "http_error", "invalid_json", "empty_task_id"}

\* C35: submit_with_failover returns only an outcome whose external_task_id
\* is not empty, the id of a response below 400; every attempt before the
\* returned one failed.  A response below 400 whose body is not JSON, or in
\* which no task id is found, marks the record failed and the loop goes to
\* the next candidate; one with a task id is returned at once.  So the
\* returned candidate is the first attempted one whose response was below
\* 400 and carried a task id.
C35_TaskIdRequired ==
    /\ [](/\ pc = "returned" <=> outcome.kind = "SubmitOutcome"
          /\ outcome.kind = "SubmitOutcome" =>
                /\ outcome.external_task_id \notin {"", None}
                /\ outcome.external_task_id = last_response.task_id
                /\ last_response.status_code < 400
                /\ HasTaskId(last_response)
                /\ outcome.candidate = Last(submitted)
                /\ candidate_keys[outcome.candidate].selected
                /\ \A j \in 1..(Len(submitted) - 1) :
                    /\ candidate_keys[submitted[j]].attempt_status \in FailedAttempts
                    /\ ~candidate_keys[submitted[j]].selected
                    /\ submitted[j] \in DOMAIN candidate_records =>
                            candidate_records[submitted[j]].status = "failed")
    /\ [][(ResponseStep /\ last_response'.status_code < 400) =>
            IF HasTaskId(last_response')
                THEN /\ pc' = "returned"
                     /\ outcome'.kind = "SubmitOutcome"
                     /\ outcome'.candidate = idx
                     /\ outcome'.external_task_id = last_response'.task_id
                ELSE /\ pc' = "loop"
                     /\ idx' = idx + 1
                     /\ outcome' = outcome
                     /\ Last(candidate_keys').attempt_status =
                            (IF last_response'.json = "invalid" THEN "invalid_json"
                             ELSE "empty_task_id")
                     /\ idx \in DOMAIN candidate_records =>
                            /\ candidate_records'[idx].status = "failed"
                            /\ candidate_records'[idx].status_code
                                    = Some(last_response'.status_code)]_vars

\* The first candidate answered 200 with a body in which no task id was
\* found; the second answered with a task id and was returned.
C35_Witness ==
    /\ pc = "returned"
    /\ submitted = <<1, 2>>
    /\ candidate_keys[1].attempt_status = "empty_task_id"
    /\ candidate_records # <<>>
    /\ candidate_records[1].status = "failed"
    /\ candidate_records[1].status_code = Some(200)
    /\ outcome.candidate = 2
    /\ outcome.external_task_id = "task_1"

\* C36: an upstream response of status 400 or more stops the failover, with
\* UpstreamClientRequestError, exactly when its status is a 4xx other than
\* 401, 403 and 429 and the classifier judges its text a client error;
\* 401, 403, 429 and 5xx go on to the next candidate whatever the text, and
\* so does an exception raised by submit_func.
C36_HttpErrorClassified ==
    [][/\ (ResponseStep /\ last_response'.status_code >= 400) =>
            LET status == last_response'.status_code
                stops == /\ 400 <= status /\ status < 500
                         /\ status \notin {401, 403, 429}
                         /\ last_response'.is_client_error
            IN  IF stops
                    THEN /\ pc' = "raised"
                         /\ outcome'.kind = "UpstreamClientRequestError"
                         /\ outcome'.last_status_code = Some(status)
                    ELSE /\ pc' = "loop"
                         /\ idx' = idx + 1
                         /\ outcome' = outcome
       /\ (pc = "submitting" /\ Last(candidate_keys').attempt_status = "exception") =>
            /\ pc' = "loop"
            /\ idx' = idx + 1
            /\ outcome' = outcome]_vars

\* The first of two candidates answered 429 with a text the classifier takes
\* for a client error, and the loop has gone on to the second.
C36_Witness ==
    /\ pc = "loop"
    /\ n_candidates = 2
    /\ idx = 2
    /\ last_response.status_code = 429
    /\ last_response.is_client_error
    /\ candidate_keys[1].attempt_status = "http_error"
    /\ ~classified.stop
    /\ outcome = NoOutcome

(***************************************************************************)
(* Termination of a failover (SpecFailover).                               *)
(***************************************************************************)

\* The attempts the retry policy allows on the first n candidates together.
RECURSIVE SumOfCaps(_)
SumOfCaps(n) ==
    IF n = 0 THEN 0
    ELSE SumOfCaps(n - 1) + EffectiveMaxRetries(e_candidates[n], e_policy)

\* execute has returned its result or raised.
EngineDone == e_pc \notin {"idle", "loop", "attempting"}

\* submit_with_failover has returned or raised.
SubmitDone == pc \in {"returned", "raised"}

\* C39: a failover that has started ends.  Whatever attempt_func returns or
\* raises and whatever the classifier answers, CONTINUE every time included,
\* execute returns or raises, and the attempts it makes never exceed the sum
\* over the candidates of the retries the policy allows on each;
\* submit_with_failover returns or raises, and it awaits submit_func at
\* most once for a candidate.
C39_FailoverTerminates ==
    /\ (e_pc # "idle") ~> EngineDone
    /\ (pc # "idle") ~> SubmitDone
    /\ [][e_attempts' # e_attempts =>
            Len(e_attempts') <= SumOfCaps(Len(e_candidates))]_vars
    /\ [][submitted' # submitted =>
            /\ Len(submitted') <= n_candidates
            /\ \A j \in 1..Len(submitted) : submitted[j] # Last(submitted')]_vars

\* The classifier answered CONTINUE to every failure of two candidates with
\* two retries each: the engine made four attempts, all that the policy
\* allows, and returned.
C39_Witness ==
    /\ e_pc = "returned"
    /\ Len(e_candidates) = 2
    /\ e_policy.mode # "DISABLED"
    /\ Len(e_attempts) = 4
    /\ Len(e_attempts) = SumOfCaps(Len(e_candidates))
    /\ e_verdict.action = "CONTINUE"
    /\ ~e_result.success

(***************************************************************************)
(* Restrictions of the caller (SpecRestrict)                               *)
(***************************************************************************)

\* What the rule of precedence gives on one of the two simple axes, as a
\* set: the ApiKey's list if it has one, else the User's, else None.
ExpectedAxis(axis) ==
    LET api_key == r_args.api_key
        user == r_args.user
    IN  IF api_key # {} /\ Val(api_key)[axis] # {} THEN Some(SetOf(Val(Val(api_key)[axis])))
        ELSE IF user # {} /\ Val(user)[axis] # {} THEN Some(SetOf(Val(Val(user)[axis])))
        ELSE {}

\* The same on allowed_models.
ExpectedModels ==
    LET api_key == r_args.api_key
        user == r_args.user
    IN  IF api_key # {} /\ Val(api_key).allowed_models.kind # "none"
            THEN Val(api_key).allowed_models
        ELSE IF user # {} /\ Val(user).allowed_models.kind # "none"
            THEN Val(user).allowed_models
        ELSE NoModels

\* The members of what a path returned on a simple axis: a list from
\* from_api_key_and_user, a set from get_effective_restrictions.
MembersReturned(axis) ==
    LET returned == Val(r_result).out[axis]
    IN  IF returned = {} THEN {}
        ELSE IF Val(r_result).call = "from_api_key_and_user" THEN Some(SetOf(Val(returned)))
        ELSE returned

\* C31: on each axis the effective restriction is the ApiKey's value if the
\* ApiKey sets the axis, otherwise the User's if the User sets it, otherwise
\* the axis is unrestricted; from_api_key_and_user and
\* get_effective_restrictions both return this.
C31_KeyThenUser ==
    r_result # {} =>
        /\ MembersReturned("allowed_providers") = ExpectedAxis("allowed_providers")
        /\ MembersReturned("allowed_api_formats") = ExpectedAxis("allowed_api_formats")
        /\ Val(r_result).out.allowed_models = ExpectedModels

(***************************************************************************)
(* merge_allowed_models (SpecMerge)                                        *)
(***************************************************************************)

\* The formats a request may come in: the enumerated ones, in either case,
\* and one the enumeration does not list.
RequestFormats == {"OPENAI", "openai", "CLAUDE", "OTHER"}

\* The merged value admits a model under a format only if both inputs do.
NeverBroadens ==
    \A model_name \in ModelNames, api_format \in RequestFormats :
        check_model_allowed(model_name, Val(m_result), api_format) =>
            /\ check_model_allowed(model_name, m_args.allowed_models_1, api_format)
            /\ check_model_allowed(model_name, m_args.allowed_models_2, api_format)

\* Two lists merge into their sorted intersection.
ListsIntersect ==
    m_args.allowed_models_1.kind = "list" /\ m_args.allowed_models_2.kind = "list" =>
        Val(m_result) = ListOf(sorted(SetOf(m_args.allowed_models_1.models)
                                       \cap SetOf(m_args.allowed_models_2.models)))

\* A map on either side merges into a map.
MapStaysMap ==
    m_args.allowed_models_1.kind = "dict" \/ m_args.allowed_models_2.kind = "dict" =>
        Val(m_result).kind = "dict"

\* C32: merge_allowed_models never broadens permissions: for every model
\* name and every API format the merged value admits the model only if both
\* inputs admit it (None admits everything); two lists give their sorted
\* intersection; a map on either side gives a map, never a list or None.
C32_MergeNeverBroadens ==
    m_result # {} => NeverBroadens /\ ListsIntersect /\ MapStaysMap

(***************************************************************************)
(* Fail-closed handling of malformed keys (SpecAvail)                      *)
(***************************************************************************)

\* A key row whose allowed_models or api_formats is neither None nor a list.
Malformed(row) ==
    \/ row.allowed_models.kind \notin {"none", "list"}
    \/ row.api_formats.kind \notin {"none", "list"}

\* The rows that remain when the malformed ones are taken out.
WellFormedRows == SelectSeq(v_args.key_rows, LAMBDA row : ~Malformed(row))

\* C33: a ProviderAPIKey whose allowed_models or api_formats is non-null and
\* not a list never contributes to availability: the providers found
\* available and the key rules are those of the well-formed keys alone, and
\* normalize_allowed_models never answers None (unrestricted) for an
\* allowed_models that is neither None nor a list.
C33_MalformedKeyDropped ==
    v_result # {} =>
        LET returned == Val(v_result)
        IN  /\ returned.call = "get_providers_with_active_keys" =>
                returned.out = get_providers_with_active_keys(
                                   WellFormedRows, v_args.api_formats,
                                   v_args.provider_to_endpoint_formats)
            /\ returned.call = "get_provider_key_rules" =>
                returned.out = get_provider_key_rules(
                                   WellFormedRows, v_args.api_formats,
                                   v_args.provider_to_endpoint_formats)
            /\ returned.call = "normalize_allowed_models" =>
                (v_args.key_rows[returned.row].allowed_models.kind \notin {"none", "list"}
                    => returned.out # {})

====
